---- MODULE Spec2Model ----
(***************************************************************************)
(* Conversation qualification engine of millouz/beautyagent.               *)
(*                                                                         *)
(* The store is one JSON document (db.json) that every handler reads as a  *)
(* whole, changes in memory and writes back as a whole.  A webhook turn is *)
(* an async function: it runs without interruption between two awaits and  *)
(* is suspended at each await (generation call, summary call, delivery     *)
(* call), where the turns of other deliveries may run.                     *)
(*                                                                         *)
(* Time is counted in hours.  A text is a sequence of tokens, a reply is a *)
(* sequence of sentences.  The file system is taken to be reliable:        *)
(* readFileSync yields the last document written.                          *)
(***************************************************************************)
EXTENDS Integers, Sequences, FiniteSets, TLC

VARIABLES
    file,      \* the document stored in db.json
    now,       \* Date.now(), in hours
    ticks,     \* number of clock advances so far
    turn,      \* the webhook deliveries: position, locals (text is the user
               \* content the turn appended) and observations
    proc,      \* the running process: which server file, and its environment
    facts,     \* the facts object the extractor fills (slots, lead profile)
    last       \* the last helper call made on its own: name, arguments, result

vars == <<file, now, ticks, turn, proc, facts, last>>

(***************************************************************************)
(* Bounds of the model                                                     *)
(***************************************************************************)
MaxReq == 2
MaxSeq == 2
MaxTicks == 1
MaxOver == 2
MaxTexts == 3

(***************************************************************************)
(* Constants of the program                                                *)
(***************************************************************************)
TTL == 24
TTL_MS == 6
MAX_TURNS == 24

P1_TTL == 72
P1_TTL_MS == 72
P1_MAX_TURNS == 28

\* the clock advances by the conversation TTL exactly, or by just more than
\* the ledger TTL
TickSteps == {TTL_MS, TTL + 1}
P1_TickSteps == {1, P1_TTL + 1}

(***************************************************************************)
(* Values                                                                  *)
(***************************************************************************)
NoId == ""
EmptyMap == <<>>

Put(f, k, v) == [x \in (DOMAIN f) \cup {k} |-> IF x = k THEN v ELSE f[x]]

Min(a, b) == IF a < b THEN a ELSE b

\* the reply used when the generation call yields nothing
FALLBACK_REPLY == <<"Merci pour votre message.">>

\* what the completion endpoint may answer: no content, or some sentences
GenContents == {<<>>, <<"s1", "s2", "s3", "s4">>}
SumContents == {<<>>, <<"resume">>}

\* Inbound webhook bodies: the first message of the first change.  A message
\* id names one message, so two deliveries with the same id carry the same
\* sender and body.
Message(id, from, phone, type, body, image) ==
    [id |-> id, from |-> from, phone |-> phone, type |-> type, body |-> body,
     image |-> image]

SameSenderInbound ==
    { Message("M1", "S1", "E1", "text", <<"bonjour", "rhinoplastie">>, ""),
      Message("M2", "S1", "E1", "text", <<"bonjour", "3000", " ">>, "") }

OtherSenderInbound ==
    { Message("M3", "S2", "E1", "text", <<"greffe">>, "") }

CompleteInbound == SameSenderInbound \cup OtherSenderInbound

ImageInbound ==
    { Message("M5", "S1", "E1", "image", <<>>, "IMG") }

NoIdInbound ==
    { Message("", "S1", "E1", "text", <<"urgent">>, "") }

IncompleteInbound ==
    { Message("M4", "", "E1", "text", <<"bonjour">>, ""),
      Message("M4", "S1", " ", "text", <<"bonjour">>, ""),
      Message("M4", "S1", "E1", "text", <<>>, ""),
      Message("M4", "S1", "E1", "text", <<" ">>, ""),
      Message("M4", "S1", "E1", "image", <<>>, ""),
      Message("M4", "S1", "E1", "none", <<>>, "") }

\* the deliveries of the sequential runs and of the concurrent runs
Inbound == SameSenderInbound \cup ImageInbound \cup NoIdInbound \cup IncompleteInbound
ConcurrentInbound == CompleteInbound \cup ImageInbound

(***************************************************************************)
(* Helpers of the program                                                  *)
(***************************************************************************)
\* String.prototype.trim on a token sequence: blanks at both ends go
RECURSIVE TrimLeft(_)
TrimLeft(s) == IF s # <<>> /\ Head(s) = " " THEN TrimLeft(Tail(s)) ELSE s

RECURSIVE TrimRight(_)
TrimRight(s) ==
    IF s # <<>> /\ s[Len(s)] = " " THEN TrimRight(SubSeq(s, 1, Len(s) - 1)) ELSE s

\* the body is used untrimmed
Trim_none(s) == s

Trim(s) == TrimRight(TrimLeft(s))

\* norm(v) on an identifier: the blanks around it go, a blank identifier is
\* the empty string
norm(v) == IF v = " " THEN "" ELSE IF v = " E1 " THEN "E1" ELSE v

sameId(a, b) == norm(a) = norm(b)

EmptyDB == [clients |-> <<>>, conversations |-> EmptyMap, processed |-> EmptyMap]

ensureDBShape(db) == db

readDB == ensureDBShape(file)

pruneProcessed(db, t) ==
    [db EXCEPT !.processed =
        [k \in {x \in DOMAIN db.processed : ~(t - db.processed[x] > TTL)}
            |-> db.processed[k]]]

\* the identifier is checked but never recorded
alreadyHandled_unrecorded(db, messageId, t) ==
    IF messageId = NoId
    THEN [ret |-> FALSE, db |-> db]
    ELSE IF messageId \in DOMAIN db.processed /\ db.processed[messageId] # 0
    THEN [ret |-> TRUE, db |-> db]
    ELSE [ret |-> FALSE, db |-> pruneProcessed(db, t)]

\* the result and the document as the call leaves it
alreadyHandled(db, messageId, t) ==
    IF messageId = NoId
    THEN [ret |-> FALSE, db |-> db]
    ELSE IF messageId \in DOMAIN db.processed /\ db.processed[messageId] # 0
    THEN [ret |-> TRUE, db |-> db]
    ELSE [ret |-> FALSE,
          db |-> pruneProcessed(
                    [db EXCEPT !.processed = Put(@, messageId, t)], t)]

\* slots: {}
EmptySlots == [intervention |-> "", budget |-> "", delai |-> "", nom |-> ""]

FreshConv(t) ==
    [history |-> <<>>,
     slots |-> [intervention |-> "", budget |-> "", delai |-> "", nom |-> ""],
     greeted |-> FALSE, summary |-> <<>>, updated_at |-> t]

\* a stale record keeps its slots and its greeting flag
getConv_merge(db, id, t) ==
    IF id \notin DOMAIN db.conversations
    THEN [db EXCEPT !.conversations = Put(@, id, FreshConv(t))]
    ELSE IF t - db.conversations[id].updated_at > TTL_MS
    THEN [db EXCEPT !.conversations[id] =
             [FreshConv(t) EXCEPT !.slots = db.conversations[id].slots,
                                  !.greeted = db.conversations[id].greeted]]
    ELSE db

\* the document after getConv; the record is db.conversations[id] of the result
getConv(db, id, t) ==
    IF id \notin DOMAIN db.conversations
       \/ t - db.conversations[id].updated_at > TTL_MS
    THEN [db EXCEPT !.conversations = Put(@, id, FreshConv(t))]
    ELSE db

\* a full history keeps its oldest entries
push_keepOldest(conv, role, content, t) ==
    LET h == Append(conv.history, [role |-> role, content |-> content])
    IN [conv EXCEPT
          !.history = IF Len(h) > MAX_TURNS THEN SubSeq(h, 1, MAX_TURNS) ELSE h,
          !.updated_at = t]

\* the history is never cut
push_unbounded(conv, role, content, t) ==
    [conv EXCEPT !.history = Append(@, [role |-> role, content |-> content]),
                 !.updated_at = t]

push(conv, role, content, t) ==
    LET h == Append(conv.history, [role |-> role, content |-> content])
    IN [conv EXCEPT
          !.history = IF Len(h) > MAX_TURNS
                      THEN SubSeq(h, Len(h) - MAX_TURNS + 1, Len(h)) ELSE h,
          !.updated_at = t]

\* vocabularies of the extraction patterns
InterventionWords ==
    {"greffe capillaire", "greffe", "rhinoplastie", "liposuccion", "bbl", "lifting",
     "implants mammaires", "botox", "acide hyaluronique", "filler"}
BudgetWords == {"3000", "4000"}
DelaiWords == {"urgent", "1-3 mois", "3-12 mois"}

\* the first token of the text that belongs to the vocabulary, "" when none
RECURSIVE FirstIn(_, _)
FirstIn(text, words) ==
    IF text = <<>> THEN ""
    ELSE IF Head(text) \in words THEN Head(text)
    ELSE FirstIn(Tail(text), words)

\* the token that follows "je m'appelle", "" when none
RECURSIVE NameIn(_)
NameIn(text) ==
    IF Len(text) < 2 THEN ""
    ELSE IF Head(text) = "je m'appelle" THEN text[2]
    ELSE NameIn(Tail(text))

extractSlots(slots, text) ==
    LET mInterv == FirstIn(text, InterventionWords)
        mBudget == FirstIn(text, BudgetWords)
        mDelai == FirstIn(text, DelaiWords)
        mNom == NameIn(text)
    IN [intervention |-> IF mInterv # "" /\ slots.intervention = ""
                         THEN mInterv ELSE slots.intervention,
        budget |-> IF mBudget # "" /\ slots.budget = "" THEN mBudget ELSE slots.budget,
        delai |-> IF mDelai # "" /\ slots.delai = "" THEN mDelai ELSE slots.delai,
        nom |-> IF mNom # "" /\ slots.nom = "" THEN mNom ELSE slots.nom]

isGreetingText(text) == text # <<>> /\ Head(text) \in {"bonjour", "bonour"}

\* at most the first three sentences of the reply
enforceStructure(out) == SubSeq(out, 1, Min(3, Len(out)))

\* the budget comes before the intervention
slotsLine_budgetFirst(s) ==
    (IF s.budget # "" THEN <<<<"Budget", s.budget>>>> ELSE <<>>)
    \o (IF s.intervention # "" THEN <<<<"Intervention", s.intervention>>>> ELSE <<>>)
    \o (IF s.delai # "" THEN <<<<"Delai", s.delai>>>> ELSE <<>>)
    \o (IF s.nom # "" THEN <<<<"Nom", s.nom>>>> ELSE <<>>)

\* the known slots as Key=Value items, joined by " | " in this order
slotsLine(s) ==
    (IF s.intervention # "" THEN <<<<"Intervention", s.intervention>>>> ELSE <<>>)
    \o (IF s.budget # "" THEN <<<<"Budget", s.budget>>>> ELSE <<>>)
    \o (IF s.delai # "" THEN <<<<"Delai", s.delai>>>> ELSE <<>>)
    \o (IF s.nom # "" THEN <<<<"Nom", s.nom>>>> ELSE <<>>)

BASE_PROMPT == "BASE_PROMPT"
DEFAULT_WA_TOKEN == proc.wa_token
OPENAI_API_KEY == proc.openai_key

FallbackClient(phoneNumberId) ==
    [id |-> "fallback", status |-> "active", phone_number_id |-> phoneNumberId,
     wa_token |-> DEFAULT_WA_TOKEN, openai_key |-> OPENAI_API_KEY, prompt |-> BASE_PROMPT]

\* the first active client, whatever its endpoint
findClient_anyEndpoint(db, phoneNumberId) ==
    LET hits == {i \in 1..Len(db.clients) : db.clients[i].status = "active"}
    IN IF hits = {} THEN FallbackClient(phoneNumberId)
       ELSE db.clients[CHOOSE i \in hits : \A j \in hits : i <= j]

\* db.clients.find(active and same endpoint id) || fallback
findClient(db, phoneNumberId) ==
    LET hits == {i \in 1..Len(db.clients) :
                    /\ db.clients[i].status = "active"
                    /\ sameId(db.clients[i].phone_number_id, phoneNumberId)}
    IN IF hits = {} THEN FallbackClient(phoneNumberId)
       ELSE db.clients[CHOOSE i \in hits : \A j \in hits : i <= j]

\* a line of the instruction: its label and what follows it
Line(label, body) == [label |-> label, body |-> body]

NONE_KNOWN == <<"aucun">>
REMINDER == <<"Bonjour une seule fois.">>

\* the instruction ends without the final reminder
dynamicSystem_noreminder(client, conv) ==
    << Line("", <<IF client.prompt # "" THEN client.prompt ELSE BASE_PROMPT>>),
       Line("Slots connus", IF slotsLine(conv.slots) # <<>> THEN slotsLine(conv.slots)
                            ELSE NONE_KNOWN),
       Line("Resume", IF conv.summary # <<>> THEN conv.summary ELSE NONE_KNOWN) >>

\* the lines of the instruction, joined by "\n" in this order
dynamicSystem(client, conv) ==
    << Line("", <<IF client.prompt # "" THEN client.prompt ELSE BASE_PROMPT>>),
       Line("Slots connus", IF slotsLine(conv.slots) # <<>> THEN slotsLine(conv.slots)
                            ELSE NONE_KNOWN),
       Line("Resume", IF conv.summary # <<>> THEN conv.summary ELSE NONE_KNOWN),
       Line("Consignes finales", REMINDER) >>

REGREET_TEXT == <<"L'utilisateur a redit bonjour">>

(***************************************************************************)
(* A webhook delivery                                                      *)
(***************************************************************************)
NoMsg == Message(NoId, "", "", "none", <<>>, "")
NoCid == <<"", "">>
NoContext ==
    [system |-> <<>>,
     history |-> <<>>, user |-> <<>>, parts |-> <<>>]

IdleTurn ==
    [pc |-> "idle", msg |-> NoMsg, db |-> EmptyDB, cid |-> NoCid, text |-> <<>>,
     userParts |-> <<>>, useToken |-> "", useOpenAI |-> "",
     reply |-> <<>>, sent |-> <<>>, context |-> NoContext, gens |-> 0, sends |-> 0,
     writes |-> 0,
     responses |-> 0, status |-> 0, outcome |-> "none", trace |-> <<>>,
     saved |-> EmptyDB, began |-> 0]

\* the handler returns without sending a response
Respond_unacknowledged(t, code, outcome) ==
    [t EXCEPT !.pc = "done", !.db = EmptyDB, !.saved = EmptyDB, !.context = NoContext,
              !.userParts = <<>>, !.useToken = "", !.useOpenAI = "",
              !.status = code, !.outcome = outcome]

\* res.sendStatus(code): the turn is over and its locals are dropped
Respond(t, code, outcome) ==
    [t EXCEPT !.pc = "done", !.db = EmptyDB, !.saved = EmptyDB, !.context = NoContext,
              !.userParts = <<>>, !.useToken = "", !.useOpenAI = "",
              !.status = code, !.outcome = outcome,
              !.responses = @ + 1, !.trace = Append(@, "respond")]

\* writeDB(t.db) seen from the turn
Saved(t) == [t EXCEPT !.writes = @ + 1, !.saved = t.db, !.trace = Append(@, "save")]

(***************************************************************************)
(* POST /webhook of src/server.js, from the arrival of the delivery to the *)
(* first await: the new value of the turn and of the file                  *)
(***************************************************************************)
\* past the dedupe gate: profile, conversation, slots, greeting, instruction,
\* user turn, generation call
ProcessMessage(t, db, f, clock) ==
    LET phoneNumberId == norm(t.msg.phone)
        from == t.msg.from
        text == Trim(t.msg.body)
        client == findClient(db, phoneNumberId)
        useToken == norm(IF client.wa_token # "" THEN client.wa_token ELSE DEFAULT_WA_TOKEN)
        useOpenAI == norm(IF client.openai_key # "" THEN client.openai_key ELSE OPENAI_API_KEY)
        conversationId == <<phoneNumberId, from>>
        db1 == getConv(db, conversationId, clock)
        conv1 == db1.conversations[conversationId]
        conv2 == [conv1 EXCEPT !.slots = extractSlots(@, text)]
        isGreeting == isGreetingText(text)
        conv3 == [conv2 EXCEPT !.greeted = IF isGreeting /\ ~@ THEN TRUE ELSE @]
        system == dynamicSystem(client, conv3)
        historyMsgs == conv3.history
        effectiveUserText == IF isGreeting /\ conv3.greeted THEN REGREET_TEXT ELSE text
        conv4 == push(conv3, "user", text, clock)
        db2 == [db1 EXCEPT !.conversations[conversationId] = conv4]
    IN [turn |-> [t EXCEPT !.pc = "gen", !.db = db2, !.cid = conversationId,
                           !.text = text, !.useToken = useToken,
                           !.useOpenAI = useOpenAI,
                           !.context = [system |-> system, history |-> historyMsgs,
                                        user |-> effectiveUserText, parts |-> <<>>],
                           !.gens = @ + 1,
                           !.trace = @ \o <<"load", "extract", "compose", "push_user",
                                            "generate">>],
        file |-> f]

\* the duplicate branch falls through to the processing of the message
WebhookBegin_fallthrough(t0, m, f, clock) ==
    LET t == [t0 EXCEPT !.msg = m, !.began = clock]
        ah == alreadyHandled(f, m.id, clock)
        t1 == [t EXCEPT !.trace = Append(@, "dedupe")]
    IN IF m.type = "none" \/ m.type # "text" \/ m.body = <<>>
       THEN [turn |-> Respond(t, 200, "incomplete"), file |-> f]
       ELSE IF m.from = "" \/ Trim(m.body) = <<>> \/ norm(m.phone) = ""
       THEN [turn |-> Respond(t, 200, "incomplete"), file |-> f]
       ELSE IF ah.ret
       THEN ProcessMessage(Saved([t1 EXCEPT !.db = ah.db]), ah.db, ah.db, clock)
       ELSE ProcessMessage(t1, ah.db, f, clock)

WebhookBegin(t0, m, f, clock) ==
    LET t == [t0 EXCEPT !.msg = m, !.began = clock]
        phoneNumberId == norm(m.phone)
        from == m.from
        text == Trim(m.body)
        messageId == m.id
        db == f
        ah == alreadyHandled(db, messageId, clock)
        t1 == [t EXCEPT !.trace = Append(@, "dedupe")]
    IN IF m.type = "none"
       THEN [turn |-> Respond(t, 200, "incomplete"), file |-> f]
       ELSE IF m.type # "text" \/ m.body = <<>>
       THEN [turn |-> Respond(t, 200, "incomplete"), file |-> f]
       ELSE IF from = "" \/ text = <<>> \/ phoneNumberId = ""
       THEN [turn |-> Respond(t, 200, "incomplete"), file |-> f]
       ELSE IF ah.ret
       THEN [turn |-> Respond(Saved([t1 EXCEPT !.db = ah.db]), 200, "duplicate"),
             file |-> ah.db]
       ELSE ProcessMessage(t1, ah.db, f, clock)

(***************************************************************************)
(* src/unnamed/part_001: the same server with a 72 h ledger, photo         *)
(* messages, and no reply at all when generation yields no text            *)
(***************************************************************************)
P1_FALLBACK ==
    <<"Merci pour votre message.", "Je transmets aux assistantes pour un rappel rapide.",
      "Preferez-vous aujourd'hui ou demain ?">>

IMAGE_RECEIVED == <<"[image recue]">>

P1_pruneProcessed(db, t) ==
    [db EXCEPT !.processed =
        [k \in {x \in DOMAIN db.processed : ~(t - db.processed[x] > P1_TTL)}
            |-> db.processed[k]]]

P1_alreadyHandled(db, messageId, t) ==
    IF messageId = NoId
    THEN [ret |-> FALSE, db |-> db]
    ELSE IF messageId \in DOMAIN db.processed /\ db.processed[messageId] # 0
    THEN [ret |-> TRUE, db |-> db]
    ELSE [ret |-> FALSE,
          db |-> P1_pruneProcessed(
                    [db EXCEPT !.processed = Put(@, messageId, t)], t)]

P1_getConv(db, id, t) ==
    IF id \notin DOMAIN db.conversations
       \/ t - db.conversations[id].updated_at > P1_TTL_MS
    THEN [db EXCEPT !.conversations = Put(@, id, FreshConv(t))]
    ELSE db

P1_push(conv, role, content, t) ==
    LET h == Append(conv.history, [role |-> role, content |-> content])
    IN [conv EXCEPT
          !.history = IF Len(h) > P1_MAX_TURNS
                      THEN SubSeq(h, Len(h) - P1_MAX_TURNS + 1, Len(h)) ELSE h,
          !.updated_at = t]

P1_extractSlots(slots, text) ==
    LET greffe == FirstIn(text, {"greffe", "greffe capillaire"})
        b == FirstIn(text, BudgetWords)
        urgent == FirstIn(text, {"urgent", "des que possible"})
        n == NameIn(text)
    IN [intervention |-> IF greffe # "" /\ slots.intervention = ""
                         THEN "greffe capillaire" ELSE slots.intervention,
        budget |-> IF b # "" /\ slots.budget = "" THEN b ELSE slots.budget,
        delai |-> IF urgent # "" /\ slots.delai = "" THEN "urgent" ELSE slots.delai,
        nom |-> IF n # "" /\ slots.nom = "" THEN n ELSE slots.nom]

\* the lines of the instruction; the note is there only once greeted
P1_dynamicSystem(client, conv) ==
    << Line("", <<IF client.prompt # "" THEN client.prompt ELSE BASE_PROMPT>>),
       Line("Slots connus", IF slotsLine(conv.slots) # <<>> THEN slotsLine(conv.slots)
                            ELSE NONE_KNOWN),
       Line("Resume", IF conv.summary # <<>> THEN conv.summary ELSE NONE_KNOWN) >>
    \o (IF conv.greeted THEN <<Line("Note", <<"deja salue; ne pas resaluer.">>)>>
        ELSE <<>>)
    \o << Line("", <<"Quand une photo est envoyee">>) >>

\* the turn after its last await: log and acknowledge
P1_End(t, outcome) == Respond(t, 200, outcome)

\* from the summary to the delivery call: the summary is kept when the call
\* gave text, the document is saved, the reply is sent when a token is known
P1_AfterSummary(t, sum, thrown, f) ==
    LET db == IF ~thrown /\ sum # <<>>
              THEN [t.db EXCEPT !.conversations[t.cid].summary = sum]
              ELSE t.db
        t1 == Saved([t EXCEPT !.db = db])
    IN IF t.useToken # "" /\ t.msg.phone # "" /\ t.msg.from # ""
       THEN [turn |-> [t1 EXCEPT !.pc = "send", !.sends = @ + 1, !.sent = t.reply,
                                 !.trace = Append(@, "deliver")],
             file |-> db]
       ELSE [turn |-> P1_End(t1, "unsent"), file |-> db]

\* an empty reply is replaced by the fallback text and sent
P1_AfterReply_fallback(t, reply, clock, f) ==
    LET text == IF reply = <<>> THEN P1_FALLBACK ELSE reply
        conv == P1_push(t.db.conversations[t.cid], "assistant", text, clock)
        t1 == [t EXCEPT !.reply = text, !.db.conversations[t.cid] = conv,
                        !.trace = Append(@, "push_assistant")]
    IN IF t1.useOpenAI = ""
       THEN P1_AfterSummary(t1, P1_FALLBACK, FALSE, f)
       ELSE [turn |-> [t1 EXCEPT !.pc = "sum"], file |-> f]

\* from the reply to the summary call; chatCompletes answers at once when no
\* key is configured
P1_AfterReply(t, reply, clock, f) ==
    IF reply = <<>>
    THEN [turn |-> P1_End(Saved(t), "noreply"), file |-> t.db]
    ELSE LET conv == P1_push(t.db.conversations[t.cid], "assistant", reply, clock)
             t1 == [t EXCEPT !.reply = reply, !.db.conversations[t.cid] = conv,
                         !.trace = Append(@, "push_assistant")]
         IN IF t1.useOpenAI = ""
            THEN P1_AfterSummary(t1, P1_FALLBACK, FALSE, f)
            ELSE [turn |-> [t1 EXCEPT !.pc = "sum"], file |-> f]

\* from the user parts to the generation call
P1_AfterParts(t, clock, f) ==
    IF t.userParts = <<>>
    THEN [turn |-> P1_End(Saved(t), "noparts"), file |-> t.db]
    ELSE LET conv == t.db.conversations[t.cid]
             client == findClient(t.db, norm(t.msg.phone))
             system == P1_dynamicSystem(client, conv)
             historyMsgs == conv.history
             t1 == [t EXCEPT !.context = [system |-> system, history |-> historyMsgs,
                                          user |-> <<>>, parts |-> t.userParts],
                             !.trace = Append(@, "compose")]
         IN IF t1.useOpenAI = ""
            THEN P1_AfterReply(t1, P1_FALLBACK, clock, f)
            ELSE [turn |-> [t1 EXCEPT !.pc = "gen", !.gens = @ + 1,
                                      !.trace = Append(@, "generate")],
                  file |-> f]

\* POST /webhook of part_001 from the arrival of the delivery to its first await
P1_WebhookBegin(t0, m, f, clock) ==
    LET t == [t0 EXCEPT !.msg = m, !.began = clock]
        phoneNumberId == norm(m.phone)
        from == m.from
        messageId == m.id
        db == f
        ah == P1_alreadyHandled(db, messageId, clock)
        client == findClient(ah.db, phoneNumberId)
        useToken == norm(IF client.wa_token # "" THEN client.wa_token ELSE DEFAULT_WA_TOKEN)
        useOpenAI == norm(IF client.openai_key # "" THEN client.openai_key ELSE OPENAI_API_KEY)
        conversationId == <<phoneNumberId, from>>
        db1 == P1_getConv(ah.db, conversationId, clock)
        t1 == [t EXCEPT !.db = db1, !.cid = conversationId, !.useToken = useToken,
                        !.useOpenAI = useOpenAI, !.trace = @ \o <<"dedupe", "load">>]
        \* the text branch
        text == Trim(m.body)
        conv1 == db1.conversations[conversationId]
        conv2 == [conv1 EXCEPT !.slots = P1_extractSlots(@, text)]
        conv3 == [conv2 EXCEPT !.greeted = IF isGreetingText(text) THEN TRUE ELSE @]
        conv4 == P1_push(conv3, "user", text, clock)
        t2 == [t1 EXCEPT !.db.conversations[conversationId] = conv4, !.text = text,
                         !.userParts = <<[type |-> "text", text |-> text]>>,
                         !.trace = @ \o <<"extract", "push_user">>]
    IN IF m.type = "none"
       THEN [turn |-> Respond(t, 200, "incomplete"), file |-> f]
       ELSE IF phoneNumberId = "" \/ from = "" \/ messageId = NoId
       THEN [turn |-> Respond(t, 200, "incomplete"), file |-> f]
       ELSE IF ah.ret
       THEN [turn |-> Respond(Saved([t EXCEPT !.db = ah.db, !.trace = Append(@, "dedupe")]),
                              200, "duplicate"),
             file |-> ah.db]
       ELSE IF m.type = "text" /\ m.body # <<>>
       THEN P1_AfterParts(t2, clock, f)
       ELSE IF m.type = "image" /\ m.image # ""
       THEN [turn |-> [t1 EXCEPT !.pc = "media"], file |-> f]
       ELSE P1_AfterParts(t1, clock, f)

(***************************************************************************)
(* Initial state: an empty store, no delivery yet                          *)
(***************************************************************************)
\* src/server.js hands its credentials to the calls whatever they are; in
\* part_001 an absent token or key changes the path of the turn, so part_001
\* runs with its default credentials configured or without them
Processes ==
    {[variant |-> "server", wa_token |-> "tok", openai_key |-> "key"]}
    \cup {[variant |-> "part_001", wa_token |-> "tok", openai_key |-> "key"],
          [variant |-> "part_001", wa_token |-> "", openai_key |-> ""]}

\* no facts object and no helper call outside a handler
NoFacts == [kind |-> "none"]
NoCall == [fn |-> "none"]

InitWith(n) ==
    /\ file = EmptyDB
    /\ now = 1
    /\ ticks = 0
    /\ turn = [r \in 1..n |-> IdleTurn]
    /\ proc \in Processes
    /\ facts = NoFacts
    /\ last = NoCall

Init == InitWith(MaxReq)

Req == DOMAIN turn

InFlight(r) == turn[r].pc \notin {"idle", "done"}

\* Time passes.  The clock counts hours and an external call lasts seconds,
\* so the clock advances between turns, not while one is suspended.  Only
\* turns read the clock: it advances after a turn and before another one.
Tick ==
    /\ ticks < MaxTicks
    /\ \A q \in Req : ~InFlight(q)
    /\ \E q \in Req : turn[q].pc = "done"
    /\ \E q \in Req : turn[q].pc = "idle"
    /\ \E d \in (IF proc.variant = "server" THEN TickSteps ELSE P1_TickSteps) :
          now' = now + d
    /\ ticks' = ticks + 1
    /\ UNCHANGED <<file, turn, proc, facts, last>>

\* a delivery arrives and its turn runs to the generation call or to its end
WebhookStart(r, m) ==
    /\ proc.variant = "server"
    /\ turn[r].pc = "idle"
    /\ \A q \in 1..(r - 1) : turn[q].pc # "idle"
    /\ LET res == WebhookBegin(turn[r], m, readDB, now)
       IN /\ turn' = [turn EXCEPT ![r] = res.turn]
          /\ file' = res.file
    /\ UNCHANGED <<now, ticks, proc, facts, last>>

\* a generation call that fails or gives no content ends the turn in error
GenReturn_abort(r, content, thrown) ==
    /\ proc.variant = "server"
    /\ turn[r].pc = "gen"
    /\ LET t == turn[r]
           failed == thrown \/ content = <<>>
           reply == enforceStructure(content)
           conv == push(t.db.conversations[t.cid], "assistant", reply, now)
       IN turn' = [turn EXCEPT ![r] =
                     IF failed
                     THEN Respond([t EXCEPT !.trace = Append(@, "gen_failed")],
                                  500, "failure")
                     ELSE [t EXCEPT !.pc = "sum", !.reply = reply,
                                    !.db = [@ EXCEPT !.conversations[t.cid] = conv],
                                    !.trace = Append(@, "push_assistant")]]
    /\ UNCHANGED <<file, now, ticks, proc, facts, last>>

\* the generation call returns content, returns none, or fails;
\* the turn runs to the summary call
GenReturn(r, content, thrown) ==
    /\ proc.variant = "server"
    /\ turn[r].pc = "gen"
    /\ LET t == turn[r]
           failed == thrown \/ content = <<>>
           reply0 == IF failed THEN FALLBACK_REPLY ELSE content
           reply == enforceStructure(reply0)
           conv == push(t.db.conversations[t.cid], "assistant", reply, now)
       IN turn' = [turn EXCEPT ![r] =
                     [t EXCEPT !.pc = "sum", !.reply = reply,
                               !.db = [@ EXCEPT !.conversations[t.cid] = conv],
                               !.trace = @ \o (IF failed THEN <<"gen_failed">> ELSE <<>>)
                                           \o <<"push_assistant">>]]
    /\ UNCHANGED <<file, now, ticks, proc, facts, last>>

\* the reply is sent before the document is saved
SumReturn_unsaved(r, content, thrown) ==
    /\ proc.variant = "server"
    /\ turn[r].pc = "sum"
    /\ turn' = [turn EXCEPT ![r] = [@ EXCEPT !.pc = "send", !.sends = @ + 1,
                                             !.trace = Append(@, "deliver")]]
    /\ UNCHANGED <<file, now, ticks, proc, facts, last>>

\* a summary call that fails or returns no content clears the summary
SumReturn_cleared(r, content, thrown) ==
    /\ proc.variant = "server"
    /\ turn[r].pc = "sum"
    /\ LET t == turn[r]
           failed == thrown \/ content = <<>>
           summary == IF failed THEN <<>> ELSE content
           db == [t.db EXCEPT !.conversations[t.cid].summary = summary]
           t1 == Saved([t EXCEPT !.db = db,
                                 !.trace = @ \o (IF failed THEN <<"sum_failed">> ELSE <<>>)])
       IN /\ file' = db
          /\ turn' = [turn EXCEPT ![r] =
                        [t1 EXCEPT !.pc = "send", !.sends = @ + 1, !.sent = t.reply,
                                   !.trace = Append(@, "deliver")]]
    /\ UNCHANGED <<now, ticks, proc, facts, last>>

\* the summary call returns; the turn saves the document and calls delivery
SumReturn(r, content, thrown) ==
    /\ proc.variant = "server"
    /\ turn[r].pc = "sum"
    /\ LET t == turn[r]
           conv == t.db.conversations[t.cid]
           failed == thrown \/ content = <<>>
           summary == IF thrown THEN conv.summary
                      ELSE IF content # <<>> THEN content ELSE conv.summary
           db == [t.db EXCEPT !.conversations[t.cid].summary = summary]
           t1 == Saved([t EXCEPT !.db = db,
                                 !.trace = @ \o (IF failed THEN <<"sum_failed">> ELSE <<>>)])
       IN /\ file' = db
          /\ turn' = [turn EXCEPT ![r] =
                        [t1 EXCEPT !.pc = "send", !.sends = @ + 1, !.sent = t.reply,
                                   !.trace = Append(@, "deliver")]]
    /\ UNCHANGED <<now, ticks, proc, facts, last>>

\* a failed delivery takes the message out of the ledger again
SendReturn_rollback(r, ok) ==
    /\ proc.variant = "server"
    /\ turn[r].pc = "send"
    /\ turn' = [turn EXCEPT ![r] =
                  IF ok THEN Respond(@, 200, "delivered")
                  ELSE Respond(@, 500, "failure")]
    /\ file' = IF ok THEN file
               ELSE [file EXCEPT !.processed =
                        [k \in (DOMAIN file.processed) \ {turn[r].msg.id}
                            |-> file.processed[k]]]
    /\ UNCHANGED <<now, ticks, proc, facts, last>>

\* the delivery call returns or fails
SendReturn(r, ok) ==
    /\ proc.variant = "server"
    /\ turn[r].pc = "send"
    /\ turn' = [turn EXCEPT ![r] =
                  IF ok THEN Respond(@, 200, "delivered")
                  ELSE Respond(@, 500, "failure")]
    /\ UNCHANGED <<file, now, ticks, proc, facts, last>>

\* part_001: a delivery arrives
P1_WebhookStart(r, m) ==
    /\ proc.variant = "part_001"
    /\ turn[r].pc = "idle"
    /\ \A q \in 1..(r - 1) : turn[q].pc # "idle"
    /\ LET res == P1_WebhookBegin(turn[r], m, readDB, now)
       IN /\ turn' = [turn EXCEPT ![r] = res.turn]
          /\ file' = res.file
    /\ UNCHANGED <<now, ticks, proc, facts, last>>

\* part_001: the photo download returns or fails; without a token it fails
P1_MediaReturn(r, ok) ==
    /\ proc.variant = "part_001"
    /\ turn[r].pc = "media"
    /\ ok => turn[r].useToken # ""
    /\ LET t == turn[r]
           conv == P1_push(t.db.conversations[t.cid], "user", IMAGE_RECEIVED, now)
           t1 == IF ok
                 THEN [t EXCEPT !.userParts = Append(@, [type |-> "image_url",
                                                         text |-> <<t.msg.image>>]),
                                !.db.conversations[t.cid] = conv,
                                !.text = IMAGE_RECEIVED,
                                !.trace = Append(@, "push_user")]
                 ELSE t
           res == P1_AfterParts(t1, now, file)
       IN /\ turn' = [turn EXCEPT ![r] = res.turn]
          /\ file' = res.file
    /\ UNCHANGED <<now, ticks, proc, facts, last>>

\* part_001: the generation call returns content, returns none, or fails
P1_GenReturn(r, content, thrown) ==
    /\ proc.variant = "part_001"
    /\ turn[r].pc = "gen"
    /\ LET reply == IF thrown THEN P1_FALLBACK ELSE content
           t == IF reply = <<>> THEN [turn[r] EXCEPT !.trace = Append(@, "gen_empty")]
                ELSE turn[r]
           res == P1_AfterReply(t, reply, now, file)
       IN /\ turn' = [turn EXCEPT ![r] = res.turn]
          /\ file' = res.file
    /\ UNCHANGED <<now, ticks, proc, facts, last>>

\* part_001: the summary call returns
P1_SumReturn(r, content, thrown) ==
    /\ proc.variant = "part_001"
    /\ turn[r].pc = "sum"
    /\ LET res == P1_AfterSummary(turn[r], content, thrown, file)
       IN /\ turn' = [turn EXCEPT ![r] = res.turn]
          /\ file' = res.file
    /\ UNCHANGED <<now, ticks, proc, facts, last>>

\* part_001: the delivery call returns or fails; a failure is logged only
P1_SendReturn(r, ok) ==
    /\ proc.variant = "part_001"
    /\ turn[r].pc = "send"
    /\ turn' = [turn EXCEPT ![r] =
                  P1_End(@, IF ok THEN "delivered" ELSE "send_failed")]
    /\ UNCHANGED <<file, now, ticks, proc, facts, last>>

Returns ==
    \/ \E r \in Req, c \in GenContents, th \in BOOLEAN : GenReturn(r, c, th)
    \/ \E r \in Req, c \in SumContents, th \in BOOLEAN : SumReturn(r, c, th)
    \/ \E r \in Req, ok \in BOOLEAN : SendReturn(r, ok)
    \/ \E r \in Req, ok \in BOOLEAN : P1_MediaReturn(r, ok)
    \/ \E r \in Req, c \in GenContents, th \in BOOLEAN : P1_GenReturn(r, c, th)
    \/ \E r \in Req, c \in SumContents, th \in BOOLEAN : P1_SumReturn(r, c, th)
    \/ \E r \in Req, ok \in BOOLEAN : P1_SendReturn(r, ok)

\* deliveries arrive at any time, also while other turns are suspended
Next ==
    \/ \E r \in Req, m \in ConcurrentInbound : WebhookStart(r, m)
    \/ \E r \in Req, m \in ConcurrentInbound : P1_WebhookStart(r, m)
    \/ Returns

Spec == Init /\ [][Next]_vars

\* the external call a suspended turn of src/server.js waits for returns or fails
ReturnOf(r) ==
    \/ \E c \in GenContents, th \in BOOLEAN : GenReturn(r, c, th)
    \/ \E c \in SumContents, th \in BOOLEAN : SumReturn(r, c, th)
    \/ \E ok \in BOOLEAN : SendReturn(r, ok)

InitFair == Init /\ proc.variant = "server"

\* the deliveries of the runs with fairness: a text of each of two senders,
\* which may arrive again, and an image
FairInbound == {m \in ConcurrentInbound : m.id # "M2"}

NextFair ==
    \/ \E r \in Req, m \in FairInbound : WebhookStart(r, m)
    \/ \E r \in Req : ReturnOf(r)

\* src/server.js, overlapping deliveries, every external call eventually
\* returning or failing
SpecFair ==
    InitFair /\ [][NextFair]_vars /\ \A r \in 1..MaxReq : WF_vars(ReturnOf(r))

\* deliveries arrive one after another: none arrives while a turn is suspended
InitSeq == InitWith(MaxSeq)

NextSeq ==
    \/ Tick
    \/ \E r \in Req, m \in Inbound :
          (\A q \in Req : ~InFlight(q)) /\ WebhookStart(r, m)
    \/ \E r \in Req, m \in Inbound :
          (\A q \in Req : ~InFlight(q)) /\ P1_WebhookStart(r, m)
    \/ Returns

SpecSeq == InitSeq /\ [][NextSeq]_vars

(***************************************************************************)
(* src/server.js: turns that follow one another on a conversation that     *)
(* earlier turns have filled up to the bound of the history or close to it *)
(***************************************************************************)
\* the history n/2 completed turns leave: the texts and the replies, numbered
HistoryOf(n) ==
    [i \in 1..n |-> [role |-> IF i % 2 = 1 THEN "user" ELSE "assistant",
                     content |-> <<ToString(i)>>]]

\* the lengths of the stored history at start: at the bound, or so far below
\* it that the turns of the run just reach it
StartLens == {MAX_TURNS - 2 * k : k \in 0..(MaxSeq - 1)}

\* the document after n/2 completed turns of sender S1 on endpoint E1
StoredAfter(n) ==
    [EmptyDB EXCEPT
        !.conversations =
            Put(EmptyMap, <<"E1", "S1">>,
                [FreshConv(1) EXCEPT !.history = HistoryOf(n), !.greeted = TRUE,
                                     !.summary = <<"resume">>]),
        !.processed = [id \in {"H" \o ToString(k) : k \in 1..(n \div 2)} |-> 1]]

InitHist ==
    /\ \E n \in StartLens : file = StoredAfter(n)
    /\ now = 1
    /\ ticks = 0
    /\ turn = [r \in 1..MaxSeq |-> IdleTurn]
    /\ proc \in Processes
    /\ proc.variant = "server"
    /\ facts = NoFacts
    /\ last = NoCall

NextHist ==
    \/ Tick
    \/ \E r \in Req, m \in SameSenderInbound :
          (\A q \in Req : ~InFlight(q)) /\ WebhookStart(r, m)
    \/ \E r \in Req, c \in GenContents, th \in BOOLEAN : GenReturn(r, c, th)
    \/ \E r \in Req, c \in SumContents, th \in BOOLEAN : SumReturn(r, c, th)
    \/ \E r \in Req, ok \in BOOLEAN : SendReturn(r, ok)

SpecHist == InitHist /\ [][NextHist]_vars

(***************************************************************************)
(* The conversation store of src/server.js on its own: getConv, push and   *)
(* the slot and greeting update of the handler, applied in any order to    *)
(* the conversations of two senders while time passes                      *)
(***************************************************************************)
ConvIds == {<<"E1", "S1">>, <<"E1", "S2">>}

\* the sender whose conversation grows past the bound
PushIds == {<<"E1", "S1">>}

\* texts of the slot and greeting update
ConvTexts == {<<"bonjour", "rhinoplastie">>, <<"3000">>}

\* number of push calls so far
Calls == IF last.fn = "none" THEN 0 ELSE last.calls

InitConv ==
    /\ file = EmptyDB
    /\ now = 1
    /\ ticks = 0
    /\ turn = <<>>
    /\ proc = [variant |-> "server", wa_token |-> "tok", openai_key |-> "key"]
    /\ facts = NoFacts
    /\ last = NoCall

\* const conv = getConv(db, id)
ConvGet(id) ==
    /\ file' = getConv(file, id, now)
    /\ last' = [fn |-> "getConv", id |-> id, had |-> id \in DOMAIN file.conversations,
                ret |-> file'.conversations[id], calls |-> Calls]
    /\ UNCHANGED <<now, ticks, turn, proc, facts>>

\* push(conv, role, content) on a record of the store; the content is the
\* serial number of the call, the roles alternate
ConvPush(id) ==
    /\ id \in DOMAIN file.conversations
    /\ Calls < MAX_TURNS + MaxOver
    /\ LET role == IF Calls % 2 = 0 THEN "user" ELSE "assistant"
           content == <<Calls + 1>>
       IN file' = [file EXCEPT !.conversations[id] = push(@, role, content, now)]
    /\ last' = [fn |-> "push", id |-> id, had |-> TRUE,
                ret |-> file'.conversations[id], calls |-> Calls + 1]
    /\ UNCHANGED <<now, ticks, turn, proc, facts>>

\* extractSlots(conv.slots, text) and the greeting flag on a record of the store
ConvExtract(id, text) ==
    /\ id \in DOMAIN file.conversations
    /\ LET conv == file.conversations[id]
           isGreeting == isGreetingText(text)
       IN file' = [file EXCEPT !.conversations[id] =
                      [conv EXCEPT !.slots = extractSlots(@, text),
                                   !.greeted = IF isGreeting /\ ~conv.greeted
                                               THEN TRUE ELSE @]]
    /\ last' = [fn |-> "extractSlots", id |-> id, had |-> TRUE,
                ret |-> file'.conversations[id], calls |-> Calls]
    /\ UNCHANGED <<now, ticks, turn, proc, facts>>

\* time passes between two calls
ConvTick ==
    /\ ticks < MaxTicks
    /\ \E d \in TickSteps : now' = now + d
    /\ ticks' = ticks + 1
    /\ UNCHANGED <<file, turn, proc, facts, last>>

NextConv ==
    \/ \E id \in ConvIds : ConvGet(id)
    \/ \E id \in PushIds : ConvPush(id)
    \/ \E id \in ConvIds, text \in ConvTexts : ConvExtract(id, text)
    \/ ConvTick

SpecConv == InitConv /\ [][NextConv]_vars

(***************************************************************************)
(* The fact extractor and the lead classifier of src/unnamed/part_000, and *)
(* extractSlots of src/server.js, applied to one facts object              *)
(***************************************************************************)
\* words the patterns of extractInfo match, as they appear in a text
InfoInterventionWords == {"rhinoplastie", "greffe", "botox"}
InfoAnamneseWords == {"convalescence", "operation", "cicatrices"}
InfoObjectifWords == {"harmonie", "cicatrices"}
InfoMedicalWords == {"allergie", "operation", "cicatrices"}
UrgentWords == {"urgent", "asap", "semaine"}
NearWords == {"1-3 mois"}
MidWords == {"3-12 mois"}
LaterWords == {"plus tard", "apres"}
Emails == {"marie@x.fr"}
Phones == {"0612345678"}

\* the values of profile.timing
URGENT == "urgent"
NEAR == "1-3 mois"
MID == "3-12 mois"
LATER == "plus tard"

\* the amounts a text can carry and what euroToNumber makes of them
AmountValue ==
    [a \in {"3000", "4000", "5000", "2k", "00"} |->
        CASE a = "3000" -> 3000
          [] a = "4000" -> 4000
          [] a = "5000" -> 5000
          [] a = "2k" -> 2 * 1000
          [] a = "00" -> 0]
Amounts == DOMAIN AmountValue
euroToNumber(s) == AmountValue[s]

\* the ages a text can carry
AgeValue == [a \in {"30", "45"} |-> IF a = "30" THEN 30 ELSE 45]
Ages == DOMAIN AgeValue

HasAny(text, words) == \E i \in 1..Len(text) : text[i] \in words

\* the leftmost position where the tokens of a pattern follow each other, 0 when none
MatchAt(text, pattern) ==
    LET hits == {i \in 1..(Len(text) - Len(pattern) + 1) :
                    \A j \in 1..Len(pattern) : text[i + j - 1] \in pattern[j]}
    IN IF hits = {} THEN 0 ELSE CHOOSE i \in hits : \A k \in hits : i <= k

NoBudget == [form |-> "none", min |-> 0, max |-> 0, approx |-> 0]
NoIdentite == [set |-> FALSE, nom |-> "", prenom |-> "", age |-> 0]
NoContact == [mode |-> "", valeur |-> ""]

\* conv.profile ??= { anamneseDone: false }
EmptyProfile ==
    [anamneseDone |-> FALSE, intervention |-> <<>>, objectif |-> <<>>,
     budget |-> NoBudget, timing |-> "", medical |-> <<>>,
     identite |-> NoIdentite, contact |-> NoContact]

\* the two numbers of a range are kept as written, a zero included
BudgetIn_asWritten(t) ==
    LET brange == MatchAt(t, <<{"entre", "de"}, Amounts, {"a", "et"}, Amounts>>)
        b1 == MatchAt(t, <<{"budget", "max"}, Amounts>>)
        b2 == MatchAt(t, <<Amounts, {"euros"}>>)
    IN IF brange # 0
       THEN [form |-> "range", min |-> euroToNumber(t[brange + 1]),
             max |-> euroToNumber(t[brange + 3]), approx |-> 0]
       ELSE IF b1 # 0
       THEN [NoBudget EXCEPT !.form = "max", !.max = euroToNumber(t[b1 + 1])]
       ELSE IF b2 # 0
       THEN [NoBudget EXCEPT !.form = "approx", !.approx = euroToNumber(t[b2])]
       ELSE NoBudget

\* the budget a text yields: a range, else a maximum, else an approximate amount
BudgetIn(t) ==
    LET brange == MatchAt(t, <<{"entre", "de"}, Amounts, {"a", "et"}, Amounts>>)
        b1 == MatchAt(t, <<{"budget", "max"}, Amounts>>)
        b2 == MatchAt(t, <<Amounts, {"euros"}>>)
    IN IF brange # 0
       THEN LET n1 == euroToNumber(t[brange + 1])
                n2 == euroToNumber(t[brange + 3])
            IN IF n1 # 0 /\ n2 # 0
               THEN [form |-> "range", min |-> IF n1 < n2 THEN n1 ELSE n2,
                     max |-> IF n1 < n2 THEN n2 ELSE n1, approx |-> 0]
               ELSE NoBudget
       ELSE IF b1 # 0
       THEN LET n == euroToNumber(t[b1 + 1])
            IN IF n # 0 THEN [NoBudget EXCEPT !.form = "max", !.max = n] ELSE NoBudget
       ELSE IF b2 # 0
       THEN LET n == euroToNumber(t[b2])
            IN IF n # 0 THEN [NoBudget EXCEPT !.form = "approx", !.approx = n]
               ELSE NoBudget
       ELSE NoBudget

\* the timing named first in the text wins
TimingIn_textOrder(timing, t) ==
    LET words == UrgentWords \cup NearWords \cup MidWords \cup LaterWords
        w == FirstIn(t, words)
    IN IF timing # "" \/ w = "" THEN timing
       ELSE IF w \in UrgentWords THEN URGENT
       ELSE IF w \in NearWords THEN NEAR
       ELSE IF w \in MidWords THEN MID
       ELSE LATER

\* the timing after the four tests, each keeping a timing already set
TimingIn(timing, t) ==
    LET t1 == IF HasAny(t, UrgentWords) /\ timing = "" THEN URGENT ELSE timing
        t2 == IF HasAny(t, NearWords) /\ t1 = "" THEN NEAR ELSE t1
        t3 == IF HasAny(t, MidWords) /\ t2 = "" THEN MID ELSE t2
    IN IF HasAny(t, LaterWords) /\ t3 = "" THEN LATER ELSE t3

\* a name found later fills the names of an identity that has none
IdentiteIn_rename(identite, t) ==
    LET age == MatchAt(t, <<Ages, {"ans"}>>)
        name == MatchAt(t, <<{"je m'appelle", "moi c'est"}, {"marie", "anne"},
                             {"dupont", "martin"}>>)
        ageValue == IF age # 0 THEN AgeValue[t[age]] ELSE 0
    IN [set |-> identite.set \/ name # 0 \/ age # 0,
        nom |-> IF name # 0 /\ identite.nom = "" THEN t[name + 2] ELSE identite.nom,
        prenom |-> IF name # 0 /\ identite.prenom = "" THEN t[name + 1]
                   ELSE identite.prenom,
        age |-> IF age # 0 /\ identite.age = 0 THEN ageValue ELSE identite.age]

\* the identity after the text
IdentiteIn(identite, t) ==
    LET age == MatchAt(t, <<Ages, {"ans"}>>)
        name == MatchAt(t, <<{"je m'appelle", "moi c'est"}, {"marie", "anne"},
                             {"dupont", "martin"}>>)
        ageValue == IF age # 0 THEN AgeValue[t[age]] ELSE 0
    IN IF ~identite.set
       THEN IF name # 0 \/ age # 0
            THEN [set |-> TRUE,
                  nom |-> IF name # 0 THEN t[name + 2] ELSE "",
                  prenom |-> IF name # 0 THEN t[name + 1] ELSE "",
                  age |-> ageValue]
            ELSE identite
       ELSE IF age # 0 /\ identite.age = 0
       THEN [identite EXCEPT !.age = ageValue]
       ELSE identite

\* the telephone number is looked for before the e-mail address
ContactIn_phoneFirst(contact, t) ==
    LET email == MatchAt(t, <<Emails>>)
        phone == MatchAt(t, <<Phones>>)
        c1 == IF phone # 0 /\ contact.mode = ""
              THEN [mode |-> "telephone", valeur |-> t[phone]] ELSE contact
        c2 == IF email # 0 /\ c1.mode = ""
              THEN [mode |-> "email", valeur |-> t[email]] ELSE c1
    IN IF HasAny(t, {"whatsapp"}) /\ c2.mode = ""
       THEN [mode |-> "WhatsApp", valeur |-> ""] ELSE c2

\* the preferred contact after the text: e-mail, else telephone, else WhatsApp
ContactIn(contact, t) ==
    LET email == MatchAt(t, <<Emails>>)
        phone == MatchAt(t, <<Phones>>)
        c1 == IF email # 0 /\ contact.mode = ""
              THEN [mode |-> "email", valeur |-> t[email]] ELSE contact
        c2 == IF phone # 0 /\ c1.mode = ""
              THEN [mode |-> "telephone", valeur |-> t[phone]] ELSE c1
    IN IF HasAny(t, {"whatsapp"}) /\ c2.mode = ""
       THEN [mode |-> "WhatsApp", valeur |-> ""] ELSE c2

\* a timing already set is replaced by the one of the text
extractInfo_lastwins(text, profile) ==
    [profile EXCEPT !.timing = TimingIn("", text)]

\* the profile after extractInfo(text, profile)
extractInfo(text, profile) ==
    LET raw == text
        t == text
        b == BudgetIn(t)
    IN [anamneseDone |-> IF HasAny(t, InfoAnamneseWords) THEN TRUE
                         ELSE profile.anamneseDone,
        intervention |-> IF HasAny(t, InfoInterventionWords) /\ profile.intervention = <<>>
                         THEN raw ELSE profile.intervention,
        objectif |-> IF HasAny(t, InfoObjectifWords) /\ profile.objectif = <<>>
                     THEN raw ELSE profile.objectif,
        budget |-> IF b.form # "none" /\ profile.budget.form = "none"
                   THEN b ELSE profile.budget,
        timing |-> TimingIn(profile.timing, t),
        medical |-> IF HasAny(t, InfoMedicalWords) /\ profile.medical = <<>>
                    THEN raw ELSE profile.medical,
        identite |-> IdentiteIn(profile.identite, t),
        contact |-> ContactIn(profile.contact, t)]

\* p.budget && (p.budget.max || p.budget.approx || p.budget.min)
Bud(p) ==
    p.budget.form # "none"
    /\ (p.budget.max # 0 \/ p.budget.approx # 0 \/ p.budget.min # 0)

\* a budget makes the lead hot whatever the timing
leadCategory_budgetOnly(p) ==
    IF Bud(p) THEN "CHAUD" ELSE "TIEDE"

\* no category when neither rule matches
leadCategory_partial(p) ==
    IF Bud(p) /\ (p.timing = URGENT \/ p.timing = NEAR) THEN "CHAUD"
    ELSE IF ~Bud(p) \/ p.timing = MID THEN "TIEDE"
    ELSE ""

leadCategory(p) ==
    IF Bud(p) /\ (p.timing = URGENT \/ p.timing = NEAR) THEN "CHAUD"
    ELSE IF ~Bud(p) \/ p.timing = MID THEN "TIEDE"
    ELSE "FROID"

\* the texts the extractors are run on
InfoTexts ==
    { <<"rhinoplastie">>,
      <<"greffe", "urgent">>,
      <<"budget", "4000">>,
      <<"entre", "2k", "et", "3000">>,
      <<"entre", "00", "et", "3000", "euros">>,
      <<"5000", "euros", "plus tard">>,
      <<"3-12 mois">>,
      <<"1-3 mois", "asap">>,
      <<"1-3 mois", "harmonie">>,
      <<"je m'appelle", "marie", "dupont">>,
      <<"moi c'est", "anne", "martin", "45", "ans">>,
      <<"30", "ans", "whatsapp", "allergie">>,
      <<"marie@x.fr", "0612345678", "cicatrices">>,
      <<"whatsapp", "0612345678">>,
      <<"de", "5000", "a", "3000">> }

SlotTexts ==
    { <<"bonjour", "rhinoplastie">>, <<"greffe", "urgent">>, <<"3000", " ">>,
      <<"4000", "1-3 mois">>, <<"je m'appelle", "marie">>,
      <<"je m'appelle", "anne", "botox">> }

\* number of extraction calls so far
Extractions == IF last.fn = "none" THEN 0 ELSE last.calls

InitFacts ==
    /\ file = EmptyDB
    /\ now = 1
    /\ ticks = 0
    /\ turn = <<>>
    /\ proc \in {[variant |-> "server", wa_token |-> "tok", openai_key |-> "key"],
                 [variant |-> "part_000", wa_token |-> "tok", openai_key |-> "key"]}
    /\ facts = IF proc.variant = "server" THEN EmptySlots ELSE EmptyProfile
    /\ last = NoCall

\* src/server.js: extractSlots(conv.slots, text)
ExtractSlots(text) ==
    /\ proc.variant = "server"
    /\ Extractions < MaxTexts
    /\ facts' = extractSlots(facts, text)
    /\ last' = [fn |-> "extractSlots", text |-> text, arg |-> facts, ret |-> "",
                calls |-> Extractions + 1]
    /\ UNCHANGED <<file, now, ticks, turn, proc>>

\* part_000: extractInfo(text, conv.profile)
ExtractInfo(text) ==
    /\ proc.variant = "part_000"
    /\ Extractions < MaxTexts
    /\ facts' = extractInfo(text, facts)
    /\ last' = [fn |-> "extractInfo", text |-> text, arg |-> facts, ret |-> "",
                calls |-> Extractions + 1]
    /\ UNCHANGED <<file, now, ticks, turn, proc>>

\* part_000: categorie: leadCategory(p) on the stored profile
LeadCategory ==
    /\ proc.variant = "part_000"
    /\ last' = [fn |-> "leadCategory", text |-> <<>>, arg |-> facts,
                ret |-> leadCategory(facts), calls |-> Extractions]
    /\ UNCHANGED <<file, now, ticks, turn, proc, facts>>

NextFacts ==
    \/ \E text \in SlotTexts : ExtractSlots(text)
    \/ \E text \in InfoTexts : ExtractInfo(text)
    \/ LeadCategory

SpecFacts == InitFacts /\ [][NextFacts]_vars

(***************************************************************************)
(* src/unnamed/part_000: POST /webhook without a ledger.  The turn looks   *)
(* up the client, stops with 500 when a credential is missing, appends the *)
(* user turn, fills the lead profile, calls generation, sanitises the      *)
(* reply, saves the document and calls delivery.                           *)
(***************************************************************************)
PROMPT_DEFAULT == "PROMPT_DEFAULT"
HISTORY_CAP == 40
HISTORY_KEEP == 20
RECENT == 12
SLICE == 1000

P0_FALLBACK == <<"Merci pour votre message, je reviens vers vous rapidement.">>
P0_TECHNICAL ==
    <<"Je rencontre un petit souci technique, un conseiller va vous recontacter.">>
SAFE_REPLY == <<"Merci, je garde vos informations en interne.">>

\* the lines of a reply that the marker pattern of sanitizeReply matches: a
\* field label of the lead sheet at the very start of a line, or "fiche lead"
\* at the start of a line or after the clipboard sign
MarkerLines == {"Fiche lead", "Nom: Dupont", "Budget: 3000"}

\* the lines that show a field of the lead sheet: the label may follow a
\* bullet, which the pattern, anchored at the start of the line, does not match
SheetLines == MarkerLines \cup {"- Nom: Dupont", "- Budget: 3000"}

\* what the completion endpoint may answer to part_000
P0_GenContents ==
    {<<>>, <<"s1", "s2">>, <<"s1", "Nom: Dupont">>, <<"- Nom: Dupont", "- Budget: 3000">>}

sanitizeReply(s) ==
    IF \E i \in 1..Len(s) : s[i] \in MarkerLines THEN SAFE_REPLY ELSE s

\* s.replace(/\s/g, "") on a credential: a blank credential is the empty string
stripSpaces(v) == IF v = " " THEN "" ELSE v

\* a or b, as a || b on strings
Or(a, b) == IF a # "" THEN a ELSE b

\* seq.slice(-n)
LastN(seq, n) == SubSeq(seq, Len(seq) - Min(n, Len(seq)) + 1, Len(seq))

P0_EmptyDB == [clients |-> <<>>, conversations |-> EmptyMap]

Client(id, status, phone, token, key, prompt) ==
    [id |-> id, status |-> status, phone_number_id |-> phone, wa_token |-> token,
     openai_key |-> key, prompt |-> prompt]

P0_FallbackClient(phoneNumberId) ==
    Client("fallback", "active", phoneNumberId, DEFAULT_WA_TOKEN, OPENAI_API_KEY,
           PROMPT_DEFAULT)

\* (db.clients ?? []).find(active and same endpoint id) || fallback
P0_findClient(db, phoneNumberId) ==
    LET hits == {i \in 1..Len(db.clients) :
                    /\ db.clients[i].status = "active"
                    /\ sameId(db.clients[i].phone_number_id, phoneNumberId)}
    IN IF hits = {} THEN P0_FallbackClient(phoneNumberId)
       ELSE db.clients[CHOOSE i \in hits : \A j \in hits : i <= j]

\* the conversation record of convId, created when the document has none
ensureConversation(db, convId, clientId, t) ==
    IF convId \in DOMAIN db.conversations THEN db
    ELSE [db EXCEPT !.conversations =
            Put(@, convId, [messages |-> <<>>, created_at |-> t, updated_at |-> 0,
                            client_id |-> clientId, profile |-> EmptyProfile])]

\* past the input check: client, credentials, user turn, profile, generation call
P0_AfterClient(t, db, f, clock) ==
    LET phoneNumberId == norm(t.msg.phone)
        from == t.msg.from
        text == Trim(t.msg.body)
        conversationId == <<phoneNumberId, from>>
        client == P0_findClient(db, phoneNumberId)
        useToken == stripSpaces(Or(client.wa_token, Or(DEFAULT_WA_TOKEN, "")))
        useOpenAI == norm(Or(client.openai_key, Or(OPENAI_API_KEY, "")))
        db1 == ensureConversation(db, conversationId, client.id, clock)
        conv1 == db1.conversations[conversationId]
        pushed == Append(conv1.messages, [role |-> "user", content |-> text, t |-> clock])
        conv2 == [conv1 EXCEPT !.messages =
                     IF Len(pushed) > HISTORY_CAP THEN LastN(pushed, HISTORY_KEEP)
                     ELSE pushed]
        conv3 == [conv2 EXCEPT !.profile = extractInfo(text, @)]
        recent == [i \in 1..Min(RECENT, Len(conv3.messages)) |->
                     [role |-> LastN(conv3.messages, RECENT)[i].role,
                      content |-> LastN(conv3.messages, RECENT)[i].content]]
        dynamicGuard == IF conv3.profile.intervention # <<>>
                        THEN <<"Intervention actuelle">> \o conv3.profile.intervention
                        ELSE <<"Aucune intervention encore">>
        system == << Line("", <<Or(client.prompt, PROMPT_DEFAULT)>>),
                     Line("", <<"Ne pas avancer si le prospect n'a pas precise son projet.">>),
                     Line("", dynamicGuard) >>
        db2 == [db1 EXCEPT !.conversations[conversationId] = conv3]
    IN IF useToken = "" \/ useOpenAI = ""
       THEN [turn |-> Respond([t EXCEPT !.cid = conversationId], 500, "no_credentials"),
             file |-> f]
       ELSE [turn |-> [t EXCEPT !.pc = "gen", !.db = db2, !.cid = conversationId,
                                !.text = text, !.useToken = useToken,
                                !.useOpenAI = useOpenAI,
                                !.context = [system |-> system, history |-> recent,
                                             user |-> <<>>, parts |-> <<>>],
                                !.gens = @ + 1,
                                !.trace = @ \o <<"load", "push_user", "extract",
                                                 "compose", "generate">>],
             file |-> f]

P0_WebhookBegin(t0, m, f, clock) ==
    LET t == [t0 EXCEPT !.msg = m, !.began = clock]
        phoneNumberId == norm(m.phone)
        from == m.from
        text == Trim(m.body)
    IN IF from = "" \/ text = <<>> \/ phoneNumberId = ""
       THEN [turn |-> Respond(t, 200, "incomplete"), file |-> f]
       ELSE P0_AfterClient(t, f, f, clock)

\* the stores a part_000 process starts on: no client, a client with its own
\* credentials, one with a blank token, one without credentials, one that has
\* not completed its onboarding
P0_Clients ==
    { <<>>,
      <<Client("c1", "active", "E1", "ctok", "ckey", "CUSTOM")>>,
      <<Client("c1", "active", "E1", " ", "ckey", "")>>,
      <<Client("c1", "active", "E1", "", "", "")>>,
      <<Client("c1", "pending_onboarding", "", "", "", "")>> }

\* the environment of a part_000 process: both defaults, or one of them absent
P0_Processes ==
    { [variant |-> "part_000", wa_token |-> "tok", openai_key |-> "key"],
      [variant |-> "part_000", wa_token |-> "", openai_key |-> "key"],
      [variant |-> "part_000", wa_token |-> "tok", openai_key |-> ""] }

P0_Inbound ==
    { Message("M1", "S1", "E1", "text", <<"bonjour", "rhinoplastie">>, ""),
      Message("M3", "S2", "E1", "text", <<"greffe">>, ""),
      Message("M4", "S1", "E1", "text", <<" ">>, "") }

InitP0 ==
    /\ file \in {[P0_EmptyDB EXCEPT !.clients = c] : c \in P0_Clients}
    /\ now = 1
    /\ ticks = 0
    /\ turn = [r \in 1..MaxReq |-> IdleTurn]
    /\ proc \in P0_Processes
    /\ facts = NoFacts
    /\ last = NoCall

\* part_000: a delivery arrives
P0_WebhookStart(r, m) ==
    /\ turn[r].pc = "idle"
    /\ \A q \in 1..(r - 1) : turn[q].pc # "idle"
    /\ LET res == P0_WebhookBegin(turn[r], m, file, now)
       IN /\ turn' = [turn EXCEPT ![r] = res.turn]
          /\ file' = res.file
    /\ UNCHANGED <<now, ticks, proc, facts, last>>

\* part_000: the generation call returns content, returns none, or fails; the
\* turn appends the reply, saves the document and calls delivery
P0_GenReturn(r, content, thrown) ==
    /\ turn[r].pc = "gen"
    /\ LET t == turn[r]
           reply == IF thrown THEN P0_TECHNICAL
                    ELSE sanitizeReply(IF content # <<>>
                                       THEN SubSeq(content, 1, Min(SLICE, Len(content)))
                                       ELSE P0_FALLBACK)
           conv == t.db.conversations[t.cid]
           db == [t.db EXCEPT !.conversations[t.cid] =
                     [conv EXCEPT !.messages = Append(@, [role |-> "assistant",
                                                          content |-> reply, t |-> now]),
                                  !.updated_at = now]]
           t1 == Saved([t EXCEPT !.db = db, !.reply = reply,
                                 !.trace = @ \o (IF thrown THEN <<"gen_failed">> ELSE <<>>)
                                             \o <<"push_assistant">>])
       IN /\ file' = db
          /\ turn' = [turn EXCEPT ![r] =
                        [t1 EXCEPT !.pc = "send", !.sends = @ + 1, !.sent = reply,
                                   !.trace = Append(@, "deliver")]]
    /\ UNCHANGED <<now, ticks, proc, facts, last>>

\* part_000: the delivery call returns or fails; a failure is logged only
P0_SendReturn(r, ok) ==
    /\ turn[r].pc = "send"
    /\ turn' = [turn EXCEPT ![r] =
                  Respond(@, 200, IF ok THEN "delivered" ELSE "send_failed")]
    /\ UNCHANGED <<file, now, ticks, proc, facts, last>>

NextP0 ==
    \/ \E r \in Req, m \in P0_Inbound : P0_WebhookStart(r, m)
    \/ \E r \in Req, c \in P0_GenContents, th \in BOOLEAN : P0_GenReturn(r, c, th)
    \/ \E r \in Req, ok \in BOOLEAN : P0_SendReturn(r, ok)

SpecP0 == InitP0 /\ [][NextP0]_vars

(***************************************************************************)
(* POST /webhook of src/unnamed/part_004: the turns of one sender, one     *)
(* after another, on a new conversation or on one that earlier turns have  *)
(* filled up to the point where the list of messages is cut.  The clock    *)
(* counts seconds.                                                         *)
(***************************************************************************)
MSG_CAP == 20
MSG_KEEP == 10
P4_RECENT == 6
ASK_GAP == 15

\* the clock advances by just less than the gap between two askings of the
\* same field, or by the gap
P4_TickSteps == {ASK_GAP - 1, ASK_GAP}

FieldOrder ==
    <<"intervention", "objectif", "budget", "timing", "medical", "identite", "contact",
      "rdv">>

P4_EmptyProfile ==
    [intervention |-> <<>>, objectif |-> <<>>, budget |-> "", timing |-> "",
     medical |-> <<>>, identite |-> <<>>, contact |-> <<>>,
     lastAsked |-> "", lastAskedAt |-> 0]

\* the conversation record of convId, created when the document has none
P4_ensureConversation(db, convId, clientId, t) ==
    IF convId \in DOMAIN db.conversations THEN db
    ELSE [db EXCEPT !.conversations =
            Put(@, convId, [messages |-> <<>>, created_at |-> t, updated_at |-> 0,
                            client_id |-> clientId, profile |-> P4_EmptyProfile])]

\* vocabularies of the patterns of extractInfo
P4_InterventionWords ==
    {"greffe", "implant", "rhinoplastie", "lifting", "botox", "acide", "liposuccion"}
P4_Amounts == {"3000", "5000"}
P4_UrgentWords == {"urgent", "asap", "semaine"}
P4_MedicalWords == {"grossesse", "diabete", "allergie", "operation", "tabac"}

\* the budget fragment of a text: digits before the euro sign or after the
\* word budget, whichever match is leftmost; "" when none
P4_BudgetIn(t) ==
    LET i1 == MatchAt(t, <<P4_Amounts, {"€"}>>)
        i2 == MatchAt(t, <<{"budget"}, P4_Amounts>>)
    IN IF i1 = 0 /\ i2 = 0 THEN ""
       ELSE IF i2 = 0 \/ (i1 # 0 /\ i1 < i2) THEN t[i1]
       ELSE t[i2 + 1]

\* the timing a text yields on an empty slot: each test assigns only when
\* the slot is still empty, so the first test that matches decides
P4_TimingIn(t) ==
    IF HasAny(t, P4_UrgentWords) THEN URGENT
    ELSE IF HasAny(t, {NEAR}) THEN NEAR
    ELSE IF HasAny(t, {MID}) THEN MID
    ELSE IF HasAny(t, {LATER}) THEN LATER
    ELSE ""

\* extractInfo(text, profile): x ??= v assigns only to an empty slot
P4_extractInfo(text, profile) ==
    [profile EXCEPT
        !.intervention = IF @ = <<>> /\ HasAny(text, P4_InterventionWords) THEN text ELSE @,
        !.budget = IF @ = "" THEN P4_BudgetIn(text) ELSE @,
        !.timing = IF @ = "" THEN P4_TimingIn(text) ELSE @,
        !.medical = IF @ = <<>> /\ HasAny(text, P4_MedicalWords) THEN text ELSE @]

\* the field after intervention is budget
nextField_skipObjectif(p) ==
    IF p.intervention = <<>> THEN "intervention"
    ELSE IF p.budget = "" THEN "budget"
    ELSE IF p.timing = "" THEN "timing"
    ELSE IF p.medical = <<>> THEN "medical"
    ELSE IF p.identite = <<>> THEN "identite"
    ELSE IF p.contact = <<>> THEN "contact"
    ELSE "rdv"

nextField(p) ==
    IF p.intervention = <<>> THEN "intervention"
    ELSE IF p.objectif = <<>> THEN "objectif"
    ELSE IF p.budget = "" THEN "budget"
    ELSE IF p.timing = "" THEN "timing"
    ELSE IF p.medical = <<>> THEN "medical"
    ELSE IF p.identite = <<>> THEN "identite"
    ELSE IF p.contact = <<>> THEN "contact"
    ELSE "rdv"

\* order[(order.indexOf(field) + 1) % order.length]
successor(field) ==
    LET i == CHOOSE k \in 1..Len(FieldOrder) : FieldOrder[k] = field
    IN FieldOrder[(i % Len(FieldOrder)) + 1]

\* the field the handler asks for at time t
chooseField(p, t) ==
    LET field == nextField(p)
    IN IF p.lastAsked = field /\ t - p.lastAskedAt < ASK_GAP THEN successor(field)
       ELSE field

\* the list of messages is never cut
P4_pushUser_uncut(messages, text, t) ==
    Append(messages, [role |-> "user", content |-> text, t |-> t])

\* conv.messages.push(user); if (length > 20) slice(-10)
P4_pushUser(messages, text, t) ==
    LET ms == Append(messages, [role |-> "user", content |-> text, t |-> t])
    IN IF Len(ms) > MSG_CAP THEN LastN(ms, MSG_KEEP) ELSE ms

\* the handler from the arrival of the delivery to the generation call
P4_WebhookBegin(t0, m, f, clock) ==
    LET t == [t0 EXCEPT !.msg = m, !.began = clock]
        phoneNumberId == norm(m.phone)
        from == m.from
        text == Trim(m.body)
        conversationId == <<phoneNumberId, from>>
        db == f
        client == P0_findClient(db, phoneNumberId)
        useToken == stripSpaces(Or(client.wa_token, Or(DEFAULT_WA_TOKEN, "")))
        useOpenAI == norm(Or(client.openai_key, Or(OPENAI_API_KEY, "")))
        db1 == P4_ensureConversation(db, conversationId, client.id, clock)
        conv1 == db1.conversations[conversationId]
        messages == P4_pushUser(conv1.messages, text, clock)
        sysPrompt == Or(client.prompt, PROMPT_DEFAULT)
        profile1 == P4_extractInfo(text, conv1.profile)
        field == chooseField(profile1, clock)
        profile2 == [profile1 EXCEPT !.lastAsked = field, !.lastAskedAt = clock]
        conv2 == [conv1 EXCEPT !.messages = messages, !.profile = profile2]
        db2 == [db1 EXCEPT !.conversations[conversationId] = conv2]
        recent == LastN(messages, P4_RECENT)
    IN IF from = "" \/ text = <<>> \/ phoneNumberId = ""
       THEN [turn |-> Respond(t, 200, "incomplete"), file |-> f]
       ELSE IF useToken = "" \/ useOpenAI = ""
       THEN [turn |-> Respond([t EXCEPT !.trace = Append(@, "load")], 500,
                              "no_credentials"),
             file |-> f]
       ELSE [turn |-> [t EXCEPT !.pc = "gen", !.db = db2, !.cid = conversationId,
                                !.text = text, !.useToken = useToken,
                                !.useOpenAI = useOpenAI,
                                !.context = [system |-> <<Line("", <<sysPrompt>>)>>,
                                             history |-> recent, user |-> <<>>,
                                             parts |-> <<field>>],
                                !.gens = @ + 1,
                                !.trace = @ \o <<"load", "push_user", "extract",
                                                 "compose", "generate">>],
             file |-> f]

\* the messages n pushes leave, numbered, the last one a reply
P4_MessagesOf(n) ==
    [i \in 1..n |-> [role |-> IF (n - i) % 2 = 0 THEN "assistant" ELSE "user",
                     content |-> <<ToString(i)>>, t |-> 1]]

\* the lengths of the stored list at start: around the cut
P4_StartLens == {MSG_CAP - 1, MSG_CAP, MSG_CAP + 1}

\* the document with a conversation of sender S1 on endpoint E1 in which no
\* slot is filled yet and the intervention has just been asked for
P4_StoredAfter(n) ==
    [P0_EmptyDB EXCEPT
        !.conversations =
            Put(EmptyMap, <<"E1", "S1">>,
                [messages |-> P4_MessagesOf(n), created_at |-> 1, updated_at |-> 1,
                 client_id |-> "fallback",
                 profile |-> [P4_EmptyProfile EXCEPT !.lastAsked = "intervention",
                                                     !.lastAskedAt = 1]])]

P4_Processes ==
    { [variant |-> "part_004", wa_token |-> "tok", openai_key |-> "key"],
      [variant |-> "part_004", wa_token |-> "", openai_key |-> ""] }

P4_Inbound ==
    { Message("M1", "S1", "E1", "text", <<"bonjour">>, ""),
      Message("M3", "S1", "E1", "text", <<"greffe", "3000", "€", "urgent", "tabac">>, ""),
      Message("M4", "S1", "E1", "text", <<" ">>, "") }

InitP4 ==
    /\ file \in {P0_EmptyDB} \cup {P4_StoredAfter(n) : n \in P4_StartLens}
    /\ now = 1
    /\ ticks = 0
    /\ turn = [r \in 1..MaxSeq |-> IdleTurn]
    /\ proc \in P4_Processes
    /\ facts = NoFacts
    /\ last = NoCall

\* time passes between two deliveries
P4_Tick ==
    /\ ticks < MaxTicks
    /\ \E q \in Req : turn[q].pc = "idle"
    /\ \E d \in P4_TickSteps : now' = now + d
    /\ ticks' = ticks + 1
    /\ UNCHANGED <<file, turn, proc, facts, last>>

\* part_004: a delivery arrives
P4_WebhookStart(r, m) ==
    /\ turn[r].pc = "idle"
    /\ \A q \in 1..(r - 1) : turn[q].pc # "idle"
    /\ LET res == P4_WebhookBegin(turn[r], m, file, now)
       IN /\ turn' = [turn EXCEPT ![r] = res.turn]
          /\ file' = res.file
    /\ UNCHANGED <<now, ticks, proc, facts, last>>

\* part_004: the generation call returns content, returns none, or fails; the
\* reply is appended, the document is written and the delivery is called
P4_GenReturn(r, content, thrown) ==
    /\ turn[r].pc = "gen"
    /\ LET t == turn[r]
           reply == IF thrown THEN P0_TECHNICAL
                    ELSE IF content # <<>>
                    THEN SubSeq(content, 1, Min(SLICE, Len(content)))
                    ELSE P0_FALLBACK
           conv == t.db.conversations[t.cid]
           db == [t.db EXCEPT !.conversations[t.cid] =
                     [conv EXCEPT !.messages = Append(@, [role |-> "assistant",
                                                          content |-> reply, t |-> now]),
                                  !.updated_at = now]]
           t1 == Saved([t EXCEPT !.db = db, !.reply = reply,
                                 !.trace = @ \o (IF thrown THEN <<"gen_failed">> ELSE <<>>)
                                             \o <<"push_assistant">>])
       IN /\ file' = db
          /\ turn' = [turn EXCEPT ![r] =
                        [t1 EXCEPT !.pc = "send", !.sends = @ + 1, !.sent = reply,
                                   !.trace = Append(@, "deliver")]]
    /\ UNCHANGED <<now, ticks, proc, facts, last>>

\* part_004: the delivery call returns or fails; a failure is logged only
P4_SendReturn(r, ok) ==
    /\ turn[r].pc = "send"
    /\ turn' = [turn EXCEPT ![r] =
                  Respond(@, 200, IF ok THEN "delivered" ELSE "send_failed")]
    /\ UNCHANGED <<file, now, ticks, proc, facts, last>>

NextP4 ==
    \/ P4_Tick
    \/ \E r \in Req, m \in P4_Inbound :
          (\A q \in Req : ~InFlight(q)) /\ P4_WebhookStart(r, m)
    \/ \E r \in Req, c \in GenContents, th \in BOOLEAN : P4_GenReturn(r, c, th)
    \/ \E r \in Req, ok \in BOOLEAN : P4_SendReturn(r, ok)

SpecP4 == InitP4 /\ [][NextP4]_vars

(***************************************************************************)
(* src/server.js: the clients.  The Stripe webhook adds a client waiting   *)
(* for its onboarding, the onboarding handler activates it; both read the  *)
(* document, change it and write it back in one go, also while a WhatsApp  *)
(* turn is suspended.  The WhatsApp turns follow one another.              *)
(***************************************************************************)
DEFAULT_PHONE_NUMBER_ID == "E1"

\* checkout sessions and onboarding forms
Sessions == {"c1"}
OnboardInputs ==
    { [session_id |-> "c1", phone_number_id |-> "E1", wa_token |-> "ctok",
       openai_key |-> "ckey", prompt |-> "CUSTOM"],
      [session_id |-> "c1", phone_number_id |-> "", wa_token |-> "",
       openai_key |-> "", prompt |-> ""],
      [session_id |-> "c1", phone_number_id |-> "E2", wa_token |-> "ctok",
       openai_key |-> "ckey", prompt |-> "CUSTOM"] }

\* the positions of the clients of the document with this id
ClientsWithId(db, id) == {i \in 1..Len(db.clients) : db.clients[i].id = id}

\* checkout.session.completed: the document after the handler
stripeWebhook(db, id) ==
    IF ClientsWithId(db, id) = {}
    THEN [db EXCEPT !.clients =
            Append(@, Client(id, "pending_onboarding", "", "", "", ""))]
    ELSE db

\* /onboarding/complete: the document after the handler
onboardingComplete(db, in) ==
    LET hits == ClientsWithId(db, in.session_id)
        c == CHOOSE i \in hits : \A j \in hits : i <= j
    IN IF hits = {} THEN db
       ELSE [db EXCEPT !.clients[c] =
               Client(in.session_id, "active",
                      norm(Or(in.phone_number_id, DEFAULT_PHONE_NUMBER_ID)),
                      Or(in.wa_token, DEFAULT_WA_TOKEN),
                      Or(in.openai_key, OPENAI_API_KEY),
                      Or(in.prompt, BASE_PROMPT))]

\* POST /stripe-webhook for a session the document does not know
StripeWebhook(id) ==
    /\ ClientsWithId(readDB, id) = {}
    /\ file' = stripeWebhook(readDB, id)
    /\ UNCHANGED <<now, ticks, turn, proc, facts, last>>

\* POST /onboarding/complete for a known session
OnboardingComplete(in) ==
    /\ ClientsWithId(readDB, in.session_id) # {}
    /\ file' = onboardingComplete(readDB, in)
    /\ UNCHANGED <<now, ticks, turn, proc, facts, last>>

\* the deliveries of the runs with clients: all of one sender on endpoint E1,
\* one of them with blanks around the endpoint id
ClientInbound ==
    SameSenderInbound \cup { Message("M6", "S1", " E1 ", "text", <<"merci">>, "") }

\* the clients the document holds at start: none, or one activated by an
\* earlier run of the process that had no default token configured
StoredClients == { <<>>, <<Client("c0", "active", "E1", "", "ckey0", "CUSTOM0")>> }

InitClients ==
    /\ \E cl \in StoredClients : file = [EmptyDB EXCEPT !.clients = cl]
    /\ now = 1
    /\ ticks = 0
    /\ turn = [r \in 1..MaxSeq |-> IdleTurn]
    /\ proc \in Processes
    /\ proc.variant = "server"
    /\ facts = NoFacts
    /\ last = NoCall

NextClients ==
    \/ \E id \in Sessions : StripeWebhook(id)
    \/ \E in \in OnboardInputs : OnboardingComplete(in)
    \/ \E r \in Req, m \in ClientInbound :
          (\A q \in Req : ~InFlight(q)) /\ WebhookStart(r, m)
    \/ \E r \in Req, c \in GenContents, th \in BOOLEAN : GenReturn(r, c, th)
    \/ \E r \in Req, c \in SumContents, th \in BOOLEAN : SumReturn(r, c, th)
    \/ \E r \in Req, ok \in BOOLEAN : SendReturn(r, ok)

SpecClients == InitClients /\ [][NextClients]_vars

(***************************************************************************)
(* Observations used by the properties                                     *)
(***************************************************************************)
Count(seq, e) == Cardinality({i \in 1..Len(seq) : seq[i] = e})
Has(seq, e) == \E i \in 1..Len(seq) : seq[i] = e

Done(r) == turn[r].pc = "done"
Server == proc.variant = "server"
LedgerTTL == IF Server THEN TTL ELSE P1_TTL

\* the turn went through the whole pipeline, whatever became of the delivery
Completed(r) ==
    Done(r) /\ turn[r].outcome \in {"delivered", "failure", "send_failed", "unsent"}

\* the delivery call of the turn failed
DeliveryFailed(r) == Done(r) /\ turn[r].outcome \in {"failure", "send_failed"}

\* the turn is the first delivery of its message
FirstDelivery(r) == \A q \in 1..(r - 1) : turn[q].msg.id # turn[r].msg.id

\* the delivery lacks a sender, a text or an endpoint id
MissingField(m) ==
    \/ m.from = ""
    \/ m.phone \in {"", " "}
    \/ m.type # "text"
    \/ \A i \in 1..Len(m.body) : m.body[i] = " "

\* what the text of the turn yields on empty slots
SlotsOf(r) ==
    IF Server THEN extractSlots(EmptySlots, turn[r].text)
    ELSE P1_extractSlots(EmptySlots, turn[r].text)

\* the document holds what the turn appended and extracted
HoldsTurn(db, r) ==
    /\ turn[r].cid \in DOMAIN db.conversations
    /\ LET conv == db.conversations[turn[r].cid]
       IN /\ \E i \in 1..(Len(conv.history) - 1) :
                /\ conv.history[i] = [role |-> "user", content |-> turn[r].text]
                /\ conv.history[i + 1] = [role |-> "assistant", content |-> turn[r].reply]
          /\ \A k \in DOMAIN EmptySlots : SlotsOf(r)[k] # "" => conv.slots[k] # ""

\* the ledger of the document holds the message of the turn
InLedger(db, r) == turn[r].msg.id # NoId => turn[r].msg.id \in DOMAIN db.processed

Holds(db, r) == HoldsTurn(db, r) /\ InLedger(db, r)

PipelineOrder == <<"dedupe", "load", "extract", "compose", "generate", "save", "deliver">>
IsPipelineEvent(e) == Has(PipelineOrder, e)
IsPrefix(a, b) == Len(a) <= Len(b) /\ SubSeq(b, 1, Len(a)) = a

\* r2 is a later delivery of the message of r1, arrived within the ledger TTL
Redelivery(r1, r2) ==
    /\ r1 < r2
    /\ turn[r1].pc # "idle" /\ turn[r2].pc # "idle"
    /\ turn[r1].msg.id # NoId
    /\ turn[r1].msg = turn[r2].msg
    /\ turn[r2].began - turn[r1].began <= LedgerTTL

\* C1: in src/server.js, when a delivery of message M has run to completion
\* and M is delivered again within the ledger TTL, the second delivery is
\* skipped: over both, one user turn and one assistant turn were appended and
\* one outbound delivery was attempted.
C1_SequentialIdempotence ==
    Server =>
        \A r1, r2 \in Req :
            (Redelivery(r1, r2) /\ Completed(r1) /\ Done(r2)
                /\ \A q \in 1..(r1 - 1) : turn[q].msg.id # turn[r1].msg.id)
            => /\ turn[r2].outcome = "duplicate"
               /\ Count(turn[r1].trace, "push_user") + Count(turn[r2].trace, "push_user") = 1
               /\ Count(turn[r1].trace, "push_assistant")
                    + Count(turn[r2].trace, "push_assistant") = 1
               /\ turn[r1].gens + turn[r2].gens = 1
               /\ turn[r1].sends + turn[r2].sends = 1

\* a second delivery of a completed message, hours later, has been handled
C1_Witness ==
    /\ Server
    /\ \E r1, r2 \in Req :
          /\ Redelivery(r1, r2) /\ Completed(r1) /\ Done(r2)
          /\ turn[r2].began > turn[r1].began
          /\ turn[r2].outcome = "duplicate"

\* C2: for two deliveries of the same message id, under every interleaving,
\* at most one generation call and one outbound delivery are made and the
\* message is appended to the history at most once.
C2_IdempotenceUnderInterleaving ==
    Server =>
        \A r1, r2 \in Req :
            Redelivery(r1, r2)
            => /\ turn[r1].gens + turn[r2].gens <= 1
               /\ turn[r1].sends + turn[r2].sends <= 1
               /\ Count(turn[r1].trace, "push_user") + Count(turn[r2].trace, "push_user") <= 1

\* C3: two deliveries of different messages of one conversation, under every
\* interleaving: once both turns are complete the stored conversation holds
\* the user message, the reply and the slots of both.
C3_NoLostUpdate ==
    Server =>
        \A r1, r2 \in Req :
            (r1 # r2 /\ Completed(r1) /\ Completed(r2)
                /\ turn[r1].cid = turn[r2].cid /\ turn[r1].msg.id # turn[r2].msg.id)
            => HoldsTurn(file, r1) /\ HoldsTurn(file, r2)

\* C4: two turns of different conversations, under every interleaving: once
\* both are complete the store holds the turns and slots of both
\* conversations and both message ids in the ledger.
C4_OtherConversationsKept ==
    \A r1, r2 \in Req :
        (r1 # r2 /\ Completed(r1) /\ Completed(r2) /\ turn[r1].cid # turn[r2].cid)
        => Holds(file, r1) /\ Holds(file, r2)

\* C5: a turn of src/server.js goes through dedupe check, conversation load,
\* slot extraction, instruction composition, generation call, store save and
\* outbound delivery in this order, and when the delivery is attempted the
\* turn has saved a document that holds the ledger entry of the message and
\* the user and assistant turns.
C5_StepOrdering ==
    Server =>
        \A r \in Req :
            /\ turn[r].outcome # "duplicate"
                => IsPrefix(SelectSeq(turn[r].trace, IsPipelineEvent), PipelineOrder)
            /\ turn[r].sends > 0 => Has(turn[r].trace, "save")
            /\ turn[r].pc = "send"
                => /\ turn[r].writes = 1
                   /\ turn[r].sends = 1
                   /\ Holds(turn[r].saved, r)
                   /\ LET h == turn[r].saved.conversations[turn[r].cid].history
                      IN /\ Len(h) >= 2
                         /\ h[Len(h) - 1] = [role |-> "user", content |-> turn[r].text]
                         /\ h[Len(h)] = [role |-> "assistant", content |-> turn[r].reply]

\* a delivery is being attempted while another turn is suspended
C5_Witness ==
    /\ Server
    /\ \E r, q \in Req :
          /\ turn[r].pc = "send" /\ turn[r].sends = 1
          /\ q # r /\ InFlight(q)

\* the step in which the turn of r begins
Begins(r) == turn[r].pc = "idle" /\ turn'[r].pc # "idle"

\* the step in which the delivery call of r fails
DeliveryFails(r) == turn[r].pc = "send" /\ DeliveryFailed(r)'

\* C6: when the outbound delivery fails, the saved state (user turn, reply,
\* slots, ledger entry) stays as it is, the turn makes no second delivery
\* attempt, and a later delivery of the same message within the ledger TTL is
\* skipped as a duplicate.
C6_DeliveryFailure ==
    /\ [][\A r \in Req :
            DeliveryFails(r)
            => /\ file' = file
               /\ Holds(file, r)'
               /\ turn'[r].sends = 1]_vars
    /\ [](\A r1, r2 \in Req :
            (DeliveryFailed(r1) /\ FirstDelivery(r1) /\ Redelivery(r1, r2) /\ Done(r2))
            => /\ turn[r1].sends = 1
               /\ turn[r2].outcome = "duplicate"
               /\ turn[r2].gens = 0
               /\ turn[r2].sends = 0
               /\ ~Has(turn[r2].trace, "push_user"))

\* a message whose delivery failed has been delivered again
C6_Witness ==
    \E r1, r2 \in Req :
        /\ DeliveryFailed(r1) /\ Redelivery(r1, r2) /\ Done(r2)
        /\ turn[r2].outcome = "duplicate"

\* C7: when the message id is in the ledger the handler stops at the dedupe
\* check: no conversation is loaded, created or reset, no slot is extracted,
\* nothing is appended, no generation call and no delivery are made, and the
\* conversations of the store are unchanged.
C7_DuplicateSkipped ==
    [][\A r \in Req :
        (Begins(r) /\ Has(turn'[r].trace, "dedupe")
            /\ turn'[r].msg.id \in DOMAIN file.processed)
        => /\ turn'[r].pc = "done"
           /\ turn'[r].outcome = "duplicate"
           /\ turn'[r].status = 200
           /\ file'.conversations = file.conversations
           /\ turn'[r].gens = 0
           /\ turn'[r].sends = 0
           /\ \A e \in {"load", "extract", "compose", "push_user", "generate",
                        "push_assistant", "deliver"} : ~Has(turn'[r].trace, e)]_vars

\* a duplicate has been skipped after its conversation grew stale
C7_Witness ==
    \E r1, r2 \in Req :
        /\ r1 < r2 /\ Done(r2) /\ turn[r2].outcome = "duplicate"
        /\ turn[r1].msg.id = turn[r2].msg.id
        /\ turn[r2].began - turn[r1].began > TTL_MS

\* C8: in src/server.js a delivery without sender, text or endpoint id is
\* acknowledged with 200 and changes nothing: no ledger entry, no
\* conversation, no generation call, no delivery.
C8_IncompleteInput ==
    [][Server =>
        \A r \in Req :
            (Begins(r) /\ MissingField(turn'[r].msg))
            => /\ file' = file
               /\ turn'[r].pc = "done"
               /\ turn'[r].status = 200
               /\ turn'[r].responses = 1
               /\ turn'[r].gens = 0
               /\ turn'[r].sends = 0
               /\ turn'[r].writes = 0
               /\ turn'[r].trace = <<"respond">>]_vars

\* an incomplete delivery was acknowledged while the store held a conversation
C8_Witness ==
    /\ Server
    /\ \E r \in Req :
          /\ Done(r) /\ MissingField(turn[r].msg)
          /\ turn[r].msg.type = "text" /\ turn[r].msg.body # <<>>
          /\ turn[r].status = 200
    /\ DOMAIN file.conversations # {}

\* C9: in src/server.js and in part_001 a delivery without message id is not
\* deduplicated and not discarded: nothing is recorded in the ledger and the
\* message is processed (slots extracted, a reply produced).
C9_MissingIdProcessed ==
    /\ NoId \notin DOMAIN file.processed
    /\ \A r \in Req :
          (Done(r) /\ turn[r].msg.id = NoId /\ ~MissingField(turn[r].msg))
          => /\ turn[r].outcome \notin {"incomplete", "duplicate"}
             /\ Has(turn[r].trace, "extract")
             /\ turn[r].reply # <<>>

\* the document the dedupe check of a beginning turn leaves behind
AfterCheck(r) == IF turn'[r].pc = "done" THEN file' ELSE turn'[r].db

\* C10: after every call of alreadyHandled, whatever it returns, the ledger
\* holds no entry older than the TTL.
C10_LedgerPurgedOnEveryCall ==
    [][\A r \in Req :
        (Begins(r) /\ Has(turn'[r].trace, "dedupe"))
        => \A k \in DOMAIN AfterCheck(r).processed :
              now - AfterCheck(r).processed[k] <= LedgerTTL]_vars

\* getConv has just been called on conversation id
GetConvStep(id) ==
    last'.fn = "getConv" /\ last'.id = id /\ <<file, last>>' # <<file, last>>

\* the record of id is missing from the document or older than TTL_MS
Stale(db, id, t) ==
    \/ id \notin DOMAIN db.conversations
    \/ t - db.conversations[id].updated_at > TTL_MS

\* C11: getConv(db, id) returns a fresh record (empty history, empty slots,
\* greeted false, empty summary, updated_at = now) and stores it under id if
\* and only if no record exists for id or the existing one's updated_at is
\* more than TTL_MS before now; otherwise it returns the existing record
\* unchanged; the records of all other conversation ids are unchanged.
C11_ConversationExpiry ==
    [][\A id \in ConvIds :
        GetConvStep(id)
        => /\ last'.ret = file'.conversations[id]
           /\ Stale(file, id, now)
              => file'.conversations[id] =
                    [history |-> <<>>, slots |-> EmptySlots, greeted |-> FALSE,
                     summary |-> <<>>, updated_at |-> now]
           /\ ~Stale(file, id, now)
              => file'.conversations[id] = file.conversations[id]
           /\ \A other \in DOMAIN file.conversations \ {id} :
                 /\ other \in DOMAIN file'.conversations
                 /\ file'.conversations[other] = file.conversations[other]
           /\ DOMAIN file'.conversations = DOMAIN file.conversations \cup {id}]_vars

\* getConv replaced a stale record that held turns and slots, beside the
\* record of another sender
C11_Witness ==
    /\ last.fn = "getConv" /\ last.had
    /\ last.calls > 0
    /\ last.ret = FreshConv(now)
    /\ now > 1 + TTL_MS
    /\ file.conversations[last.id] = last.ret
    /\ \E other \in DOMAIN file.conversations :
          other # last.id /\ file.conversations[other].slots # EmptySlots

\* C12: the history never exceeds MAX_TURNS entries; a push that would take
\* it past MAX_TURNS leaves exactly the MAX_TURNS most recent turns in their
\* order, the oldest dropped; every push sets updated_at to the current time.
C12_HistoryBound ==
    /\ [](\A id \in DOMAIN file.conversations :
            Len(file.conversations[id].history) <= MAX_TURNS)
    /\ [][\A id \in PushIds :
            (last'.fn = "push" /\ last'.id = id /\ last'.calls = Calls + 1)
            => LET old == file.conversations[id].history
                   new == file'.conversations[id].history
                   all == Append(old, [role |-> IF Calls % 2 = 0 THEN "user"
                                                ELSE "assistant",
                                       content |-> <<Calls + 1>>])
               IN /\ Len(all) <= MAX_TURNS => new = all
                  /\ Len(all) > MAX_TURNS
                     => /\ Len(new) = MAX_TURNS
                        /\ \A i \in 1..MAX_TURNS :
                              new[i] = all[Len(all) - MAX_TURNS + i]
                  /\ file'.conversations[id].updated_at = now]_vars

\* a push has dropped the oldest turns of a full history
C12_Witness ==
    /\ last.fn = "push"
    /\ last.calls > MAX_TURNS
    /\ Len(last.ret.history) = MAX_TURNS
    /\ last.ret.history[1].content = <<last.calls - MAX_TURNS + 1>>
    /\ last.ret.history[MAX_TURNS].content = <<last.calls>>

\* the slots of a profile of part_000 that hold a value keep it in the next state
ProfileKept ==
    /\ facts.intervention # <<>> => facts'.intervention = facts.intervention
    /\ facts.objectif # <<>> => facts'.objectif = facts.objectif
    /\ facts.budget.form # "none" => facts'.budget = facts.budget
    /\ facts.timing # "" => facts'.timing = facts.timing
    /\ facts.medical # <<>> => facts'.medical = facts.medical
    /\ facts.contact.mode # "" => facts'.contact = facts.contact
    /\ facts.identite.set
       => /\ facts'.identite.nom = facts.identite.nom
          /\ facts'.identite.prenom = facts.identite.prenom
          /\ facts.identite.age # 0 => facts'.identite.age = facts.identite.age

\* the slots of src/server.js that hold a value keep it in the next state
SlotsKept ==
    \A k \in DOMAIN EmptySlots : facts[k] # "" => facts'[k] = facts[k]

\* C13: once a slot holds a value, no later call of extractSlots
\* (src/server.js) or extractInfo (part_000) changes it; only the age of the
\* identity may still be filled while it is absent.
C13_SlotMonotonicity ==
    [][IF proc.variant = "server" THEN SlotsKept ELSE ProfileKept]_vars

\* extractInfo met a text with another timing, another budget and another
\* intervention than the ones the profile holds
C13_Witness ==
    /\ last.fn = "extractInfo"
    /\ last.arg.timing # "" /\ TimingIn("", last.text) \notin {"", last.arg.timing}
    /\ facts.timing = last.arg.timing
    /\ last.arg.budget.form # "none"
    /\ BudgetIn(last.text).form \notin {"none", last.arg.budget.form}
    /\ facts.budget = last.arg.budget

\* C14: leadCategory returns exactly one of CHAUD, TIEDE, FROID for every
\* profile (budget absent, range, max or approx; timing absent or any of
\* the four values) and leaves the profile as it is.
C14_ClassifierTotal ==
    /\ [](last.fn = "leadCategory" => last.ret \in {"CHAUD", "TIEDE", "FROID"})
    /\ [][last'.fn = "leadCategory" /\ last' # last
            => /\ facts' = facts
               /\ last'.arg = facts
               /\ last'.ret \in {"CHAUD", "TIEDE", "FROID"}]_vars

\* a profile with a budget range and a timing that matches no rule was classified
C14_Witness ==
    /\ last.fn = "leadCategory"
    /\ last.arg = facts
    /\ facts.budget.form = "range" /\ facts.timing = LATER
    /\ last.ret = "FROID"

\* the profile carries a budget and an urgent or near-term timing
HotFacts(p) == p.budget.form # "none" /\ p.timing \in {URGENT, NEAR}

\* C15: leadCategory returns CHAUD if and only if a budget (range, max or
\* approx) is present and the timing is urgent or 1-3 months; TIEDE and FROID
\* are returned only when that rule does not match.
C15_HotRule ==
    last.fn = "leadCategory"
    => /\ last.ret = "CHAUD" <=> HotFacts(last.arg)
       /\ last.ret \in {"TIEDE", "FROID"} => ~HotFacts(last.arg)

\* a profile with an approximate budget and a timing of 1-3 months was
\* classified CHAUD
C15_Witness ==
    /\ last.fn = "leadCategory"
    /\ last.arg.budget.form = "approx" /\ last.arg.timing = NEAR
    /\ last.ret = "CHAUD"

\* C16: with no budget and no timing leadCategory returns FROID.
C16_NoBudgetNoTimingCold ==
    (last.fn = "leadCategory" /\ last.arg.budget.form = "none" /\ last.arg.timing = "")
    => last.ret = "FROID"

\* C17: with a budget and the timing "plus tard" leadCategory returns TIEDE.
C17_BudgetLongTermWarm ==
    (last.fn = "leadCategory" /\ last.arg.budget.form # "none"
        /\ last.arg.timing = LATER)
    => last.ret = "TIEDE"

\* the turn has composed its instruction and is suspended in a later call
Composed(r) == InFlight(r) /\ Has(turn[r].trace, "compose")

\* the greeted flag of the turn's conversation when the instruction was composed
GreetedAtCompose(r) == turn[r].db.conversations[turn[r].cid].greeted

\* the instruction tells the generation not to greet again
ReGreetClause(system) ==
    IF Server THEN \E i \in 1..Len(system) : system[i] = Line("Consignes finales", REMINDER)
    ELSE \E i \in 1..Len(system) : system[i].label = "Note"

\* C18: whenever the greeted flag of the conversation is true when the
\* instruction is composed, the instruction contains the do-not-re-greet
\* clause, whatever the inbound text, a repeated greeting included.
C18_GreetingSuppression ==
    \A r \in Req :
        (Composed(r) /\ GreetedAtCompose(r))
        => ReGreetClause(turn[r].context.system)

\* a second greeting arrived on a conversation stored as greeted, and its
\* instruction was composed
C18_Witness ==
    \E r \in Req :
        /\ Composed(r)
        /\ isGreetingText(turn[r].text)
        /\ turn[r].cid \in DOMAIN file.conversations
        /\ file.conversations[turn[r].cid].greeted
        /\ file.conversations[turn[r].cid].history # <<>>
        /\ turn[r].msg.id \notin DOMAIN file.processed
        /\ ReGreetClause(turn[r].context.system)

\* the generation call of the turn failed or gave no content
GenFailed(r) == Has(turn[r].trace, "gen_failed")

\* the last entry of the history of the turn's conversation in the document
LastTurn(db, r) ==
    LET h == db.conversations[turn[r].cid].history IN h[Len(h)]

\* C19: in src/server.js, when the generation call throws or returns no
\* content, the reply is the fixed fallback message, it is appended as the
\* assistant turn, the document is saved, exactly one delivery is attempted
\* with the fallback, and the turn answers an error only when the delivery
\* itself fails.
C19_GenerationFallback ==
    Server =>
        \A r \in Req :
            GenFailed(r)
            => /\ turn[r].reply = FALLBACK_REPLY
               /\ Count(turn[r].trace, "push_assistant") = 1
               /\ turn[r].pc = "sum"
                  => /\ LastTurn(turn[r].db, r)
                            = [role |-> "assistant", content |-> FALLBACK_REPLY]
                     /\ turn[r].sends = 0
               /\ turn[r].pc = "send"
                  => /\ LastTurn(turn[r].saved, r)
                            = [role |-> "assistant", content |-> FALLBACK_REPLY]
                     /\ InLedger(turn[r].saved, r)
               /\ turn[r].pc \in {"send", "done"}
                  => /\ turn[r].writes = 1
                     /\ turn[r].sends = 1
                     /\ turn[r].sent = FALLBACK_REPLY
               /\ turn[r].pc \in {"sum", "send", "done"}
               /\ Done(r) => /\ turn[r].outcome \in {"delivered", "failure"}
                             /\ turn[r].outcome = "delivered" => turn[r].status = 200

\* a turn whose generation call failed has delivered the fallback and
\* answered 200, and the store holds the fallback as its last turn
C19_Witness ==
    /\ Server
    /\ \E r \in Req :
          /\ GenFailed(r) /\ Done(r)
          /\ turn[r].status = 200 /\ turn[r].outcome = "delivered"
          /\ turn[r].sent = FALLBACK_REPLY /\ turn[r].sends = 1
          /\ turn[r].cid \in DOMAIN file.conversations
          /\ LastTurn(file, r) = [role |-> "assistant", content |-> FALLBACK_REPLY]

\* the generation call of the turn has just returned no text
EmptyReplyStep(r) ==
    /\ turn[r].pc = "gen"
    /\ Has(turn'[r].trace, "gen_empty")

\* C20: in part_001, when the generation gives no reply text, no delivery is
\* attempted and no assistant turn is appended, and the document with the
\* ledger entry, the user turn, the extracted slots and the greeted flag is
\* saved before the handler answers.
C20_NoReplyPolicy ==
    [][\A r \in Req :
        EmptyReplyStep(r)
        => /\ turn'[r].pc = "done"
           /\ turn'[r].status = 200
           /\ turn'[r].sends = 0
           /\ turn'[r].sent = <<>>
           /\ ~Has(turn'[r].trace, "push_assistant")
           /\ ~Has(turn'[r].trace, "deliver")
           /\ turn'[r].writes = turn[r].writes + 1
           /\ IsPrefix(Append(turn[r].trace, "gen_empty") \o <<"save", "respond">>,
                       turn'[r].trace)
           /\ file' = turn[r].db
           /\ turn[r].msg.id \in DOMAIN file'.processed
           /\ turn[r].cid \in DOMAIN file'.conversations
           /\ LET conv == file'.conversations[turn[r].cid]
              IN /\ conv.history # <<>>
                 /\ conv.history[Len(conv.history)]
                        = [role |-> "user", content |-> turn[r].text]
                 /\ \A k \in DOMAIN EmptySlots : SlotsOf(r)[k] # "" => conv.slots[k] # ""
                 /\ isGreetingText(turn[r].text) => conv.greeted]_vars

\* a turn with a greeting and a slot ended without reply, and the store
\* holds its user turn, its slot and its ledger entry
C20_Witness ==
    /\ ~Server
    /\ \E r \in Req :
          /\ Done(r) /\ turn[r].outcome = "noreply"
          /\ Has(turn[r].trace, "gen_empty")
          /\ turn[r].sends = 0
          /\ isGreetingText(turn[r].text)
          /\ turn[r].msg.id \in DOMAIN file.processed
          /\ turn[r].cid \in DOMAIN file.conversations
          /\ LastTurn(file, r) = [role |-> "user", content |-> turn[r].text]
          /\ file.conversations[turn[r].cid].greeted
          /\ file.conversations[turn[r].cid].slots # EmptySlots


\* a credential with something in it
Supplied(v) == v \notin {"", " "}

\* the client the store yields for the endpoint of the delivery of r
ClientOf(r) == P0_findClient(file, norm(turn'[r].msg.phone))

\* neither the client of the delivery nor the environment supplies the credential
NoTokenFor(r) == ~Supplied(ClientOf(r).wa_token) /\ ~Supplied(proc.wa_token)
NoKeyFor(r) == ~Supplied(ClientOf(r).openai_key) /\ ~Supplied(proc.openai_key)

\* C21: in part_000 a complete delivery for which neither the client nor the
\* environment supplies a messaging token, or neither supplies a generation
\* key, ends at once with 500: no conversation is created or changed, no
\* generation call and no delivery are made; and no turn ends with 500 for
\* any other reason.
C21_MissingCredentials ==
    /\ [][\A r \in Req :
            (Begins(r) /\ ~MissingField(turn'[r].msg) /\ (NoTokenFor(r) \/ NoKeyFor(r)))
            => /\ turn'[r].pc = "done"
               /\ turn'[r].status = 500
               /\ turn'[r].responses = 1
               /\ file' = file
               /\ turn'[r].gens = 0
               /\ turn'[r].sends = 0
               /\ turn'[r].writes = 0]_vars
    /\ [][\A r \in Req :
            (Begins(r) /\ turn'[r].status = 500) => (NoTokenFor(r) \/ NoKeyFor(r))]_vars
    /\ [](\A r \in Req : turn[r].status = 500 => turn[r].outcome = "no_credentials")


\* the terminal outcomes of a turn of src/server.js
TerminalOutcomes == {"delivered", "duplicate", "incomplete", "failure"}

\* C22: every external call returning or failing in the end, each delivery to
\* the src/server.js handler reaches one terminal outcome (delivered,
\* duplicate skipped, incomplete input, failure) and stays there, and it
\* sends one HTTP response: none before its end, exactly one at its end.
C22_TurnTermination ==
    /\ \A r \in 1..MaxReq : (Server /\ turn[r].pc # "idle") ~> Done(r)
    /\ [](Server =>
            \A r \in Req :
                /\ Done(r) => /\ turn[r].responses = 1
                              /\ turn[r].outcome \in TerminalOutcomes
                              /\ turn[r].status \in {200, 500}
                /\ ~Done(r) => turn[r].responses = 0 /\ turn[r].outcome = "none")
    /\ [][Server => \A r \in Req : Done(r) => turn'[r] = turn[r]]_vars

\* two overlapping deliveries both ended, one of them after a failure
C22_Witness ==
    /\ Server
    /\ \E r, q \in Req :
          /\ r # q /\ Done(r) /\ Done(q)
          /\ turn[r].outcome = "failure" /\ turn[r].responses = 1
          /\ turn[q].outcome \in {"delivered", "duplicate"}
          /\ Has(turn[q].trace, "dedupe") /\ Has(turn[r].trace, "deliver")


\* what each budget shape yields on a text, taken on its own: NoBudget when
\* the shape does not match or its numbers do not parse to an amount
RangeOf(t) ==
    LET i == MatchAt(t, <<{"entre", "de"}, Amounts, {"a", "et"}, Amounts>>)
        n1 == euroToNumber(t[i + 1])
        n2 == euroToNumber(t[i + 3])
    IN IF i # 0 /\ n1 # 0 /\ n2 # 0
       THEN [form |-> "range", min |-> Min(n1, n2),
             max |-> IF n1 < n2 THEN n2 ELSE n1, approx |-> 0]
       ELSE NoBudget

MaxOf(t) ==
    LET i == MatchAt(t, <<{"budget", "max"}, Amounts>>)
    IN IF i # 0 /\ euroToNumber(t[i + 1]) # 0
       THEN [NoBudget EXCEPT !.form = "max", !.max = euroToNumber(t[i + 1])]
       ELSE NoBudget

ApproxOf(t) ==
    LET i == MatchAt(t, <<Amounts, {"euros"}>>)
    IN IF i # 0 /\ euroToNumber(t[i]) # 0
       THEN [NoBudget EXCEPT !.form = "approx", !.approx = euroToNumber(t[i])]
       ELSE NoBudget

\* the budget of the highest-priority shape that yields one
FirstYield(t) ==
    IF RangeOf(t) # NoBudget THEN RangeOf(t)
    ELSE IF MaxOf(t) # NoBudget THEN MaxOf(t)
    ELSE ApproxOf(t)

\* C23: extractInfo on a profile without budget sets the budget from the
\* highest-priority shape (range, then max/budget, then number with currency
\* marker) that yields a parseable value; a range that matches without
\* parsing leaves the budget to a matching max or bare-number shape.
C23_BudgetShapePriority ==
    (last.fn = "extractInfo" /\ last.arg.budget = NoBudget)
        => facts.budget = FirstYield(last.text)


\* the step in which the turn of r composes its instruction
Composes(r) == Begins(r) /\ Has(turn'[r].trace, "compose")

\* the displayed slots in their order, with their keys
DisplayedSlots(s) ==
    << <<"Intervention", s.intervention>>, <<"Budget", s.budget>>,
       <<"Delai", s.delai>>, <<"Nom", s.nom>> >>

IsSet(item) == item[2] # ""

\* C24: the instruction composed by the src/server.js handler has four lines
\* in this order: the prompt of the client, or the shared default when the
\* client has none; the known slots, which is the none-known marker exactly
\* when no displayed slot is set and otherwise each set slot once in the order
\* intervention, budget, delay, name; the summary, or the no-summary marker
\* exactly when the summary is empty; the fixed reminder.
C24_InstructionComposition ==
    [][\A r \in Req :
        Composes(r) =>
            LET sys == turn'[r].context.system
                conv == turn'[r].db.conversations[turn'[r].cid]
                client == findClient(file, norm(turn'[r].msg.phone))
            IN /\ Len(sys) = 4
               /\ sys[1] = Line("", <<IF client.prompt # "" THEN client.prompt
                                      ELSE BASE_PROMPT>>)
               /\ sys[2].label = "Slots connus"
               /\ (sys[2].body = NONE_KNOWN)
                      <=> (\A k \in DOMAIN conv.slots : conv.slots[k] = "")
               /\ (sys[2].body # NONE_KNOWN)
                      => sys[2].body = SelectSeq(DisplayedSlots(conv.slots), IsSet)
               /\ sys[3].label = "Resume"
               /\ (sys[3].body = NONE_KNOWN) <=> (conv.summary = <<>>)
               /\ (sys[3].body # NONE_KNOWN) => sys[3].body = conv.summary
               /\ sys[4] = Line("Consignes finales", REMINDER)]_vars

\* a turn of a client with its own prompt has composed an instruction with
\* two known slots and a summary
C24_Witness ==
    \E r \in Req :
        /\ turn[r].pc = "gen"
        /\ Len(turn[r].context.system) = 4
        /\ turn[r].context.system[1].body = <<"CUSTOM">>
        /\ Len(turn[r].context.system[2].body) = 2
        /\ turn[r].context.system[3].body = <<"resume">>


\* C25: in src/server.js the context of the generation call is the composed
\* instruction, then the history before this turn, oldest first, then the
\* inbound text itself as the final user message; this for every inbound
\* text, the first greeting of a conversation and a greeting carrying facts
\* included.
C25_GenerationContext ==
    Server =>
        \A r \in Req :
            turn[r].pc = "gen" =>
                LET conv == turn[r].db.conversations[turn[r].cid]
                    ctx == turn[r].context
                IN /\ Len(ctx.system) = 4
                   /\ ctx.system[4] = Line("Consignes finales", REMINDER)
                   /\ Append(ctx.history, [role |-> "user", content |-> turn[r].text])
                          = conv.history
                   /\ ctx.user = turn[r].text


\* the messages of the generation call that carry the text: entries of the
\* history window, and text parts of the trailing user message
InHistory(ctx, text) ==
    Cardinality({i \in 1..Len(ctx.history) :
                    ctx.history[i] = [role |-> "user", content |-> text]})
InParts(ctx, text) ==
    Cardinality({i \in 1..Len(ctx.parts) :
                    ctx.parts[i] = [type |-> "text", text |-> text]})

\* C26: in part_001, for a text message, the messages of the generation call
\* hold the new inbound message exactly once: not both in the history window
\* and as the trailing user message.
C26_InboundOnce ==
    proc.variant = "part_001" =>
        \A r \in Req :
            (turn[r].pc = "gen" /\ turn[r].msg.type = "text")
            => InHistory(turn[r].context, turn[r].text)
                   + InParts(turn[r].context, turn[r].text) = 1


\* the ledger entry of id in the document is older than the TTL
Expired(db, id) == id \in DOMAIN db.processed /\ now - db.processed[id] > TTL

\* C27: alreadyHandled of src/server.js answers true only for an identifier
\* whose ledger entry is younger than the TTL; an identifier whose entry is
\* older than the TTL is taken as not yet seen when it is checked again: the
\* answer is false and the identifier is recorded with the current time.
C27_LedgerTTLAtLookup ==
    [][Server =>
        \A r \in Req :
            (Begins(r) /\ Has(turn'[r].trace, "dedupe"))
            => LET id == turn'[r].msg.id
               IN /\ turn'[r].outcome = "duplicate"
                        => (id \in DOMAIN file.processed /\ ~Expired(file, id))
                  /\ Expired(file, id)
                        => /\ turn'[r].outcome # "duplicate"
                           /\ AfterCheck(r).processed[id] = now]_vars


\* the step in which the turn of r writes the document
Saves(r) == turn'[r].writes = turn[r].writes + 1

\* C28: within the lifetime of a conversation record of src/server.js, the
\* greeted flag is true from the first turn whose text is a greeting and is
\* never false again in a later turn; it is false again only after getConv
\* replaced a stale record.
C28_GreetedMonotonic ==
    [][Server =>
        /\ \A r \in Req :
              (Saves(r) /\ Has(turn'[r].trace, "push_user")
                  /\ isGreetingText(turn'[r].text))
              => file'.conversations[turn'[r].cid].greeted
        /\ \A id \in DOMAIN file.conversations :
              (/\ file.conversations[id].greeted
               /\ (id \in DOMAIN file'.conversations
                      => ~file'.conversations[id].greeted))
              => \E r \in Req :
                    /\ Saves(r) /\ turn'[r].cid = id
                    /\ Stale(file, id, turn'[r].began)]_vars


\* the age a text states, 0 when none; where it gives a full name, 0 when not
AgeOf(t) ==
    LET i == MatchAt(t, <<Ages, {"ans"}>>) IN IF i # 0 THEN AgeValue[t[i]] ELSE 0
FullNameAt(t) ==
    MatchAt(t, <<{"je m'appelle", "moi c'est"}, {"marie", "anne"}, {"dupont", "martin"}>>)

\* C29: in extractInfo, an identity without age gets its age from a later
\* text that states one, its names unchanged; a full name gives its last
\* token as surname and the tokens before as given name; the names of an
\* existing identity are never changed by a later text, also when the
\* identity came from an age alone and has no names.
C29_IdentityExtraction ==
    last.fn = "extractInfo" =>
        LET before == last.arg.identite
            after == facts.identite
            t == last.text
        IN /\ (before.set /\ before.age = 0 /\ AgeOf(t) # 0) => after.age = AgeOf(t)
           /\ before.set => (after.nom = before.nom /\ after.prenom = before.prenom)
           /\ (before.set /\ before.age # 0) => after = before
           /\ (~before.set /\ FullNameAt(t) # 0)
                 => /\ after.set
                    /\ after.nom = t[FullNameAt(t) + 2]
                    /\ after.prenom = t[FullNameAt(t) + 1]

\* an identity that came from an age alone has met a text giving a full name
C29_Witness ==
    /\ last.fn = "extractInfo"
    /\ last.arg.identite.set
    /\ last.arg.identite.nom = "" /\ last.arg.identite.age # 0
    /\ FullNameAt(last.text) # 0
    /\ facts.identite.nom = ""


\* the timing patterns a text matches, in the order of their tests
TimingsOf(t) ==
    (IF HasAny(t, UrgentWords) THEN <<URGENT>> ELSE <<>>)
    \o (IF HasAny(t, NearWords) THEN <<NEAR>> ELSE <<>>)
    \o (IF HasAny(t, MidWords) THEN <<MID>> ELSE <<>>)
    \o (IF HasAny(t, LaterWords) THEN <<LATER>> ELSE <<>>)

\* C30: the timing slot of extractInfo holds nothing or one of urgent, 1-3
\* months, 3-12 months, later; a text matching several timing patterns sets
\* an empty slot to the first matching one in the order urgent, 1-3 months,
\* 3-12 months, later.
C30_TimingClassification ==
    /\ proc.variant = "part_000" => facts.timing \in {"", URGENT, NEAR, MID, LATER}
    /\ (last.fn = "extractInfo" /\ last.arg.timing = "" /\ TimingsOf(last.text) # <<>>)
           => facts.timing = Head(TimingsOf(last.text))

\* a text naming 1-3 months before an urgent word has set the timing to urgent
C30_Witness ==
    /\ last.fn = "extractInfo"
    /\ last.arg.timing = ""
    /\ Len(TimingsOf(last.text)) > 1
    /\ FirstIn(last.text, NearWords \cup UrgentWords) \in NearWords
    /\ facts.timing = URGENT


\* the channels a text gives, in the order of their tests
ChannelsOf(t) ==
    (IF HasAny(t, Emails) THEN <<"email">> ELSE <<>>)
    \o (IF HasAny(t, Phones) THEN <<"telephone">> ELSE <<>>)
    \o (IF HasAny(t, {"whatsapp"}) THEN <<"WhatsApp">> ELSE <<>>)

\* C31: extractInfo infers the preferred contact only while none is recorded:
\* from an e-mail address first, else from a telephone number, else from a
\* mention of the channel by name; a recorded preference is never changed.
C31_ContactPriority ==
    last.fn = "extractInfo" =>
        LET before == last.arg.contact
            after == facts.contact
            t == last.text
        IN /\ before.mode # "" => after = before
           /\ (before.mode = "" /\ ChannelsOf(t) = <<>>) => after = before
           /\ (before.mode = "" /\ ChannelsOf(t) # <<>>)
                 => /\ after.mode = Head(ChannelsOf(t))
                    /\ after.mode = "email" => after.valeur \in Emails
                    /\ after.mode = "telephone" => after.valeur \in Phones
                    /\ after.mode = "WhatsApp" => after.valeur = ""

\* a text naming WhatsApp before a telephone number has recorded the telephone
C31_Witness ==
    /\ last.fn = "extractInfo"
    /\ last.arg.contact.mode = ""
    /\ ChannelsOf(last.text) = <<"telephone", "WhatsApp">>
    /\ Head(last.text) = "whatsapp"
    /\ facts.contact.mode = "telephone"


\* C32: after any sequence of extractions the budget of the profile is unset
\* or holds strictly positive integers: a fragment that does not parse to an
\* amount sets nothing, neither zero nor a placeholder, and a range has its
\* min at or below its max, whatever the order of its two numbers in the text.
C32_BudgetValue ==
    proc.variant = "part_000" =>
        LET b == facts.budget
        IN \/ b = NoBudget
           \/ /\ b.form = "range" /\ b.min \in Nat /\ b.max \in Nat
              /\ 0 < b.min /\ b.min <= b.max /\ b.approx = 0
           \/ /\ b.form = "max" /\ b.max \in Nat /\ 0 < b.max
              /\ b.min = 0 /\ b.approx = 0
           \/ /\ b.form = "approx" /\ b.approx \in Nat /\ 0 < b.approx
              /\ b.min = 0 /\ b.max = 0

\* a range written with its larger number first has been stored, and a later
\* range with an unparseable number has left it as it is
C32_Witness ==
    /\ last.fn = "extractInfo"
    /\ last.arg.budget = [form |-> "range", min |-> 3000, max |-> 5000, approx |-> 0]
    /\ last.text = <<"entre", "00", "et", "3000", "euros">>
    /\ facts.budget = last.arg.budget


\* the stored clients the lookup may select for an inbound endpoint id
Qualifying(db, phoneNumberId) ==
    {i \in 1..Len(db.clients) :
        /\ db.clients[i].status = "active"
        /\ norm(db.clients[i].phone_number_id) = norm(phoneNumberId)}

\* C33: the src/server.js handler uses a stored client only if its status is
\* active and its endpoint id equals the trimmed inbound endpoint id, so never
\* a client in status pending_onboarding; when no stored client qualifies the
\* token, the key and the prompt are the defaults, and each field the selected
\* client leaves empty is the default of that field.
C33_ProfileLookup ==
    [][\A r \in Req :
        Composes(r) =>
            LET q == Qualifying(file, turn'[r].msg.phone)
                uses(c) ==
                    /\ turn'[r].useToken = norm(Or(c.wa_token, DEFAULT_WA_TOKEN))
                    /\ turn'[r].useOpenAI = norm(Or(c.openai_key, OPENAI_API_KEY))
                    /\ turn'[r].context.system[1].body = <<Or(c.prompt, BASE_PROMPT)>>
            IN IF q = {}
               THEN /\ turn'[r].useToken = norm(DEFAULT_WA_TOKEN)
                    /\ turn'[r].useOpenAI = norm(OPENAI_API_KEY)
                    /\ turn'[r].context.system[1].body = <<BASE_PROMPT>>
               ELSE \E i \in q : uses(file.clients[i])]_vars

\* a turn whose inbound endpoint id has blanks around it runs on the key and
\* the prompt of the stored active client and on the default token the client
\* lacks, while the document also holds a client waiting for its onboarding
C33_Witness ==
    \E r \in Req :
        /\ turn[r].pc = "gen" /\ turn[r].msg.phone = " E1 "
        /\ Len(file.clients) = 2
        /\ file.clients[2].status = "pending_onboarding"
        /\ turn[r].useToken = "tok" /\ turn[r].useOpenAI = "ckey0"
        /\ turn[r].context.system[1].body = <<"CUSTOM0">>


\* the step in which the summary call of r returns
SummaryReturns(r) == Server /\ turn[r].pc = "sum" /\ turn'[r].pc # "sum"

\* C34: in the src/server.js handler every turn that has its reply goes
\* through the summary call; when the call yields content the summary becomes
\* that content, and when it fails or yields none the summary the turn holds
\* stays as it is; in both cases the step saves the document, with the reply
\* as last entry of the conversation, and calls the delivery of that reply.
C34_SummaryUpdate ==
    [][\A r \in Req :
        SummaryReturns(r) =>
            LET cid == turn[r].cid
                before == turn[r].db.conversations[cid]
                stored == file'.conversations[cid]
            IN /\ Saves(r)
               /\ stored = [before EXCEPT !.summary = stored.summary]
               /\ stored.history[Len(stored.history)].content = turn[r].reply
               /\ IF Has(turn'[r].trace, "sum_failed")
                  THEN stored.summary = before.summary
                  ELSE stored.summary # <<>> /\ stored.summary \in SumContents
               /\ turn'[r].pc = "send"
               /\ turn'[r].sends = turn[r].sends + 1
               /\ turn'[r].sent = turn[r].reply]_vars

\* the summary call of a turn failed, the summary of the turn before is still
\* stored and the delivery of the reply is under way
C34_Witness ==
    \E r \in Req :
        /\ Server /\ turn[r].pc = "send"
        /\ Has(turn[r].trace, "sum_failed")
        /\ file.conversations[turn[r].cid].summary = <<"resume">>
        /\ turn[r].sent = turn[r].reply


\* the step in which the completion call of the part_000 turn r returns a body
Sanitises(r) ==
    /\ proc.variant = "part_000"
    /\ turn[r].pc = "gen" /\ turn'[r].pc = "send"
    /\ ~Has(turn'[r].trace, "gen_failed")

\* C35: a reply that went through sanitizeReply of src/unnamed/part_000 is
\* the fixed safe message or a text without lead-sheet marker, sanitizeReply
\* leaves it as it is when applied again, and it shows no field of the
\* internal lead sheet.
C35_ReplySanitisation ==
    [][\A r \in Req :
        Sanitises(r) =>
            LET out == turn'[r].reply
            IN /\ out = SAFE_REPLY \/ \A i \in 1..Len(out) : out[i] \notin MarkerLines
               /\ sanitizeReply(out) = out
               /\ \A i \in 1..Len(SAFE_REPLY) : SAFE_REPLY[i] \notin MarkerLines
               /\ \A i \in 1..Len(out) : out[i] \notin SheetLines]_vars


\* a stored history as a completed turn leaves it
WellShaped(h) ==
    /\ Len(h) % 2 = 0
    /\ Len(h) <= MAX_TURNS
    /\ \A i \in 1..Len(h) : h[i].role = (IF i % 2 = 1 THEN "user" ELSE "assistant")

\* C36: when the turns of src/server.js are processed one after another, the
\* stored history of every conversation has an even length of at most
\* MAX_TURNS, alternates user and assistant and so begins with a user turn,
\* and the save of a turn leaves the text of the turn and then its reply as
\* the last two entries, also when the pushes of the turn cut the history.
C36_HistoryShape ==
    /\ [](\A id \in DOMAIN file.conversations :
             WellShaped(file.conversations[id].history))
    /\ [][\A r \in Req :
            (Server /\ Saves(r) /\ Has(turn'[r].trace, "push_assistant")) =>
                LET h == file'.conversations[turn[r].cid].history
                IN /\ Len(h) >= 2
                   /\ h[1].role = "user"
                   /\ h[Len(h) - 1] = [role |-> "user", content |-> turn[r].text]
                   /\ h[Len(h)] = [role |-> "assistant", content |-> turn[r].reply]]_vars

\* a turn on a history at the bound has saved: the two oldest entries are
\* gone, the history is at the bound again and ends with the text and the reply
C36_Witness ==
    \E r \in Req :
        LET h == file.conversations[turn[r].cid].history
        IN /\ turn[r].pc = "send"
           /\ Len(h) = MAX_TURNS
           /\ h[1] = [role |-> "user", content |-> <<"3">>]
           /\ h[MAX_TURNS - 1] = [role |-> "user", content |-> turn[r].text]
           /\ h[MAX_TURNS] = [role |-> "assistant", content |-> turn[r].reply]


\* C37: a client the Stripe webhook added or the onboarding handler activated
\* while a WhatsApp turn of src/server.js was suspended in an external call
\* is in the document, with that status, after the turn has written it: the
\* write of a turn takes no client out of the document and changes none.
C37_ClientsSurviveTurn ==
    [][\A r \in Req :
        (Server /\ Saves(r)) =>
            /\ Len(file'.clients) >= Len(file.clients)
            /\ \A i \in 1..Len(file.clients) :
                  /\ file'.clients[i].id = file.clients[i].id
                  /\ file'.clients[i].status = file.clients[i].status]_vars


\* the messages the document holds for a conversation, none when it has no record
StoredMessages(db, id) ==
    IF id \in DOMAIN db.conversations THEN db.conversations[id].messages ELSE <<>>

\* C38: in src/unnamed/part_004 the stored list of messages never has more
\* than MSG_CAP + 1 = 21 entries; the push of the user message cuts the list
\* exactly when it takes the length above MSG_CAP = 20, and then the MSG_KEEP
\* = 10 most recent entries stay, the user message last; the push of the
\* reply appends it to the list of the turn and cuts nothing.
C38_MessagesBound ==
    /\ [](\A id \in DOMAIN file.conversations :
             Len(file.conversations[id].messages) <= MSG_CAP + 1)
    /\ [][\A r \in Req :
            /\ (proc.variant = "part_004" /\ Begins(r) /\ turn'[r].pc = "gen") =>
                  LET before == StoredMessages(file, turn'[r].cid)
                      pushed == Append(before, [role |-> "user",
                                                content |-> turn'[r].text, t |-> now])
                      after == turn'[r].db.conversations[turn'[r].cid].messages
                  IN IF Len(before) + 1 > MSG_CAP
                     THEN /\ Len(after) = MSG_KEEP
                          /\ after = SubSeq(pushed, Len(pushed) - MSG_KEEP + 1, Len(pushed))
                     ELSE after = pushed
            /\ (proc.variant = "part_004" /\ Saves(r)) =>
                  LET held == turn[r].db.conversations[turn[r].cid].messages
                      stored == file'.conversations[turn[r].cid].messages
                  IN /\ Len(stored) = Len(held) + 1
                     /\ SubSeq(stored, 1, Len(held)) = held
                     /\ stored[Len(stored)].role = "assistant"
                     /\ stored[Len(stored)].content = turn'[r].reply]_vars

\* from 19 stored messages a first turn has left 21, and the user push of the
\* second turn has cut the 22 to the last 10 before its reply was appended
C38_Witness ==
    /\ proc.variant = "part_004"
    /\ turn[1].pc = "done" /\ turn[2].pc = "send"
    /\ LET ms == file.conversations[turn[2].cid].messages
       IN /\ Len(ms) = MSG_KEEP + 1
          /\ ms[1].content = <<"13">>
          /\ ms[7].content = <<"19">>
          /\ ms[8].role = "user" /\ ms[9].role = "assistant"
          /\ ms[10].content = turn[2].text
          /\ ms[11].content = turn[2].reply


\* the slot f of the profile p holds a value
Filled(p, f) == IF f \in {"budget", "timing"} THEN p[f] # "" ELSE p[f] # <<>>

\* the first of the seven slots, in the fixed order, that p leaves empty; rdv when none
FirstUnfilled(p) ==
    LET open == {k \in 1..(Len(FieldOrder) - 1) : ~Filled(p, FieldOrder[k])}
    IN IF open = {} THEN "rdv"
       ELSE FieldOrder[CHOOSE k \in open : \A j \in open : k <= j]

\* C39: in src/unnamed/part_004 nextField returns the first unfilled slot in
\* the order intervention, objectif, budget, timing, medical, identite,
\* contact, and rdv only when all seven are filled; the turns fill no slot
\* but intervention, budget, timing and medical, so the field the handler
\* chooses (nextField, or the field after it when that same field was asked
\* less than 15 seconds earlier) is intervention, objectif or budget, never rdv.
C39_QuestionProgression ==
    /\ [](\A id \in DOMAIN file.conversations :
             LET p == file.conversations[id].profile
             IN /\ nextField(p) = FirstUnfilled(p)
                /\ ~Filled(p, "objectif") /\ ~Filled(p, "identite")
                /\ ~Filled(p, "contact")
                /\ p.lastAsked \in {"", "intervention", "objectif", "budget"})
    /\ [][\A r \in Req :
            (proc.variant = "part_004" /\ Begins(r) /\ turn'[r].pc = "gen") =>
                LET cid == turn'[r].cid
                    prior == IF cid \in DOMAIN file.conversations
                             THEN file.conversations[cid].profile ELSE P4_EmptyProfile
                    p == turn'[r].db.conversations[cid].profile
                    field == turn'[r].context.parts[1]
                    repeated == /\ prior.lastAsked = FirstUnfilled(p)
                                /\ now - prior.lastAskedAt < ASK_GAP
                IN /\ nextField(p) = FirstUnfilled(p)
                   /\ field = IF repeated THEN successor(FirstUnfilled(p))
                              ELSE FirstUnfilled(p)
                   /\ field \in {"intervention", "objectif", "budget"}
                   /\ p.lastAsked = field /\ p.lastAskedAt = now]_vars

\* the four slots a text can fill are filled, the objective was asked for less
\* than 15 seconds ago, and the turn asks for the budget
C39_Witness ==
    \E r \in Req :
        /\ proc.variant = "part_004" /\ turn[r].pc = "gen"
        /\ turn[r].cid \in DOMAIN file.conversations
        /\ LET p == turn[r].db.conversations[turn[r].cid].profile
               q == file.conversations[turn[r].cid].profile
           IN /\ Filled(p, "intervention") /\ Filled(p, "budget")
              /\ Filled(p, "timing") /\ Filled(p, "medical")
              /\ q.lastAsked = "objectif" /\ now - q.lastAskedAt = ASK_GAP - 1
              /\ turn[r].context.parts = <<"budget">>
====
